---- MODULE Spec2Model ----
(***************************************************************************)
(* SSTFLASH: programming an SST39SF0x0 flash ROM through its software      *)
(* command protocol (src/SSTFLASH.C, DOS build: __FAKEDOS__ undefined).    *)
(*                                                                         *)
(* Several specifications share this module:                               *)
(*   SpecPlan  CalculateSequenceSeg applied to every destination segment   *)
(*             and every programmed length the loader can produce;         *)
(*   SpecWait  WaitForValue, one device read per step, 16-bit countdown;   *)
(*   SpecIdent the name table of DetectDeviceType applied to every pair    *)
(*             of ID bytes;                                                *)
(*   SpecLoad  the sizes LoadRomDataFromFile computes and its verdict, for *)
(*             files of up to MaxLoadK KiB;                                *)
(*   Spec      main(): parse, load, calibrate, plan, detect, prompt,       *)
(*             FlashRom, VerifyRom, halt, one device access per step.      *)
(*                                                                         *)
(* The build uses far pointers, so CheckMemoryModel returns TRUE.          *)
(* In Spec the calibration is a single step that yields the loop count,    *)
(* and the overlap warning of ProcessRom, which only prints, is left out.  *)
(* A 4 KiB block is carried as BlockLen of its bytes, evenly spaced, and   *)
(* ProgramBlock visits exactly those; each WaitForValue call of a byte     *)
(* program, and the whole polling loop of an erase, is one step.           *)
(*                                                                         *)
(* Numbers are decimal; the hexadecimal value of the source is given in    *)
(* the comment next to each.                                               *)
(***************************************************************************)
EXTENDS Integers, Sequences, FiniteSets, TLC

(***************************************************************************)
(* Program constants.                                                      *)
(***************************************************************************)
MAX_ROM_SIZE_K == 256
ROM_BLOCK_SIZE__K == 2
FLASH_BLOCK_SIZE_K == 4
ROM_BLOCK_SIZE_ == ROM_BLOCK_SIZE__K * 1024
FLASH_BLOCK_SIZE == FLASH_BLOCK_SIZE_K * 1024
MAX_ROM_BLOCK_COUNT == MAX_ROM_SIZE_K \div FLASH_BLOCK_SIZE_K
\* FlashRom/VerifyRom: blockSizeInSeg = FLASH_BLOCK_SIZE >> 4
blockSizeInSeg == FLASH_BLOCK_SIZE \div 16
\* ParseCmdLine: lowest accepted segment (0xA000) and the highest segment
\* its error message names (0xF800)
MIN_DEST_SEG == 40960
MAX_DEST_SEG == 63488
\* CalculateSequenceSeg: sequenceWindowSize = 32L * 1024L
sequenceWindowSize == 32 * 1024
\* offsets of the unlock cycles inside the command window (0x5555, 0x2AAA)
ADDR_5555 == 21845
ADDR_2AAA == 10922
\* EraseBlock: number of WaitForValue calls before the erase is given up
ERASE_OUTER_LOOPS == 1163

Word16 == 65536

(***************************************************************************)
(* Bounds of the model.                                                    *)
(***************************************************************************)
\* bytes of every 4 KiB block that the model carries: sample j of a block
\* stands for the byte at offset (j * FLASH_BLOCK_SIZE) \div BlockLen
BlockLen == 2
\* image files have k * 1024 bytes, k in 0..MaxFileK
MaxFileK == 6
\* number of most recent device accesses kept in trace
TraceWin == 7
\* SpecLoad: files have up to MaxLoadK KiB
MaxLoadK == 264
\* SpecPrompt: the user presses at most MaxKeys keys
MaxKeys == 3

VARIABLES
    plan,               \* SpecPlan: [pc, destSeg, flashLen, seqSeg]
    wfv,                \* SpecWait: [pc, n, timeoutCount, reads, ret]
    ident,              \* SpecIdent: [pc, vendorId, deviceId, name]
    ldr,                \* SpecLoad: [pc, len, sizeOverrideK, ok, numRomBlocks, romSize, origRomSize]
    prs,                \* SpecParse: [pc, hex, len, ok, destSeg]
    ovl,                \* SpecOverlap: HaveOverlappingBioses, its arguments, locals and memory
    pol,                \* SpecPoll: the polling loops of EraseBlock and ProgramBlock
    cal,                \* SpecCal: CalculateTimeoutLoopCount and the BIOS tick byte
    prm,                \* SpecPrompt: GetYNConfirmation and the keys pressed
    blk,                \* SpecSegs: the block segments FlashRom and VerifyRom walk
    pc,                 \* Spec: control position of main()
    argv,               \* the command line after the program name
    options,            \* Options: [destSeg, romImgPath, sizeOverrideK]
    fileLen,            \* length of the image file in bytes
    fileData,           \* sampled bytes of the image file
    romData,            \* RomData: romBlocks, numRomBlocks, romSize, origRomSize
    timeoutLoopCount,   \* ProcessRom: calibrated loop count
    sequenceSeg,        \* ProcessRom: command window segment
    dev,                \* the flash device: mem, mode, cmd, busy, id
    intEnabled,         \* CPU interrupt flag (sti / cli)
    ints,               \* [dis, en]: DisableInterrupts / EnableInterrupts calls
    trace,              \* the last TraceWin device accesses
    loc,                \* locals of the running function
    result              \* [deviceName, flashed, verified, exitCode, matchAtStart, writes]

mainVars == <<pc, argv, options, fileLen, fileData, romData, timeoutLoopCount,
              sequenceSeg, dev, intEnabled, ints, trace, loc, result>>
\* the variables of the specifications other than Spec
\* the variables of SpecPoll, SpecCal, SpecPrompt and SpecSegs
moreVars == <<pol, cal, prm, blk>>
auxVars == <<plan, wfv, ident, ldr, prs, ovl, pol, cal, prm, blk>>
vars == <<plan, wfv, ident, ldr, prs, ovl, pol, cal, prm, blk, pc, argv, options, fileLen, fileData, romData, timeoutLoopCount,
          sequenceSeg, dev, intEnabled, ints, trace, loc, result>>

(***************************************************************************)
(* CalculateSequenceSeg (window planner).                                  *)
(***************************************************************************)
\* destAddr & ~(sequenceWindowSize - 1L) on a non-negative long
MaskWindow(addr) == addr - (addr % sequenceWindowSize)

CalculateSequenceSeg_Unmasked(d, flashLen) ==
    LET destAddr == d * 16
        seqAddr0 == destAddr
        seqAddr  == IF seqAddr0 < destAddr
                       /\ seqAddr0 + sequenceWindowSize * 2 <= destAddr + flashLen
                    THEN seqAddr0 + sequenceWindowSize
                    ELSE seqAddr0
    IN (seqAddr \div 16) % Word16

CalculateSequenceSeg_NoDouble(d, flashLen) ==
    LET destAddr == d * 16
        seqAddr0 == MaskWindow(destAddr)
        seqAddr  == IF seqAddr0 < destAddr
                       /\ seqAddr0 + sequenceWindowSize <= destAddr + flashLen
                    THEN seqAddr0 + sequenceWindowSize
                    ELSE seqAddr0
    IN (seqAddr \div 16) % Word16

CalculateSequenceSeg_Floor64K(d, flashLen) ==
    LET destAddr == d * 16
        seqAddr0 == destAddr - (destAddr % (2 * sequenceWindowSize))
        seqAddr  == IF seqAddr0 < destAddr
                       /\ seqAddr0 + sequenceWindowSize * 4 <= destAddr + flashLen
                    THEN seqAddr0 + 2 * sequenceWindowSize
                    ELSE seqAddr0
    IN (seqAddr \div 16) % Word16

\* long arithmetic; the result is narrowed to unsigned short
CalculateSequenceSeg(d, flashLen) ==
    LET destAddr == d * 16
        seqAddr0 == MaskWindow(destAddr)
        seqAddr  == IF seqAddr0 < destAddr
                       /\ seqAddr0 + sequenceWindowSize * 2 <= destAddr + flashLen
                    THEN seqAddr0 + sequenceWindowSize
                    ELSE seqAddr0
    IN (seqAddr \div 16) % Word16

\* whether CalculateSequenceSeg takes its round-up branch
RoundsUp(d, flashLen) ==
    /\ MaskWindow(d * 16) < d * 16
    /\ MaskWindow(d * 16) + sequenceWindowSize * 2 <= d * 16 + flashLen

\* destination segments ParseCmdLine's message allows: multiples of 0x100
\* in 0xA000..0xF800
PlanDestSegs ==
    { MIN_DEST_SEG + k * blockSizeInSeg :
        k \in 0 .. ((MAX_DEST_SEG - MIN_DEST_SEG) \div blockSizeInSeg) }
\* programmed lengths: 1..64 blocks of 4 KiB
PlanFlashLens == { k * FLASH_BLOCK_SIZE : k \in 1 .. MAX_ROM_BLOCK_COUNT }

PlanIdle == [pc |-> "off", destSeg |-> 0, flashLen |-> 0, seqSeg |-> 0]

PlanCall ==
    /\ plan.pc = "call"
    /\ plan' = [plan EXCEPT !.pc = "done",
                            !.seqSeg = CalculateSequenceSeg(plan.destSeg, plan.flashLen)]
    /\ UNCHANGED <<wfv, ident, ldr, prs, ovl, moreVars, mainVars>>

(***************************************************************************)
(* SpecWait: WaitForValue, one read of *addrVolatile per step.  The device *)
(* decides what each read returns, so every read either matches or not.    *)
(***************************************************************************)
\* --timeoutCount on an unsigned short
Dec16(c) == (c + Word16 - 1) % Word16

\* iteration counts WaitForValue is called with
WaitCounts == {0, 1, 2, 256, Word16 - 1}

WaitIdle == [pc |-> "off", n |-> 0, timeoutCount |-> 0, reads |-> 0, ret |-> FALSE]

\* do { if (*addrVolatile == value) return TRUE;
WaitRead ==
    /\ wfv.pc = "read"
    /\ \E match \in BOOLEAN :
         wfv' = IF match
                THEN [wfv EXCEPT !.pc = "ret", !.reads = @ + 1, !.ret = TRUE]
                ELSE [wfv EXCEPT !.pc = "dec", !.reads = @ + 1]
    /\ UNCHANGED <<plan, ident, ldr, prs, ovl, moreVars, mainVars>>

\* } while (--timeoutCount); return FALSE;
WaitDecrement ==
    /\ wfv.pc = "dec"
    /\ LET c == Dec16(wfv.timeoutCount)
       IN wfv' = IF c # 0
                 THEN [wfv EXCEPT !.pc = "read", !.timeoutCount = c]
                 ELSE [wfv EXCEPT !.pc = "ret", !.timeoutCount = c, !.ret = FALSE]
    /\ UNCHANGED <<plan, ident, ldr, prs, ovl, moreVars, mainVars>>

(***************************************************************************)
(* ParseCmdLine.  An argument is carried as what the parser takes from it: *)
(* dash (it starts with '-' or '/'), opt (the text after the dash, lower   *)
(* case), hex ((unsigned short)strtol(arg, NULL, 16)), len (strlen) and    *)
(* num (atoi).  romImgPath is the index of the argument it points to, 0    *)
(* for NULL.                                                               *)
(***************************************************************************)
OptionsZero == [destSeg |-> 0, romImgPath |-> 0, sizeOverrideK |-> 0]

\* static const short BLOCK_SIZE
BLOCK_SIZE == IF FLASH_BLOCK_SIZE > ROM_BLOCK_SIZE_ THEN FLASH_BLOCK_SIZE ELSE ROM_BLOCK_SIZE_

\* the body of the for loop from argument i on, and the final return
RECURSIVE ParseArgs(_, _, _)
ParseArgs(args, i, o) ==
    IF i > Len(args)
    THEN [ok |-> (o.destSeg # 0 /\ o.romImgPath # 0), options |-> o]
    ELSE LET arg == args[i]
         IN IF arg.dash /\ o.destSeg = 0 /\ o.romImgPath = 0
            THEN IF arg.opt \in {"?", "h", "help"} THEN [ok |-> FALSE, options |-> o]
                 ELSE IF arg.opt = "size"
                 THEN IF i + 1 > Len(args) THEN [ok |-> FALSE, options |-> o]
                      ELSE LET k  == args[i + 1].num
                               o2 == [o EXCEPT !.sizeOverrideK = k]
                           IN IF k <= 0 \/ k > MAX_ROM_SIZE_K \/ k % 2 # 0
                              THEN [ok |-> FALSE, options |-> o2]
                              ELSE ParseArgs(args, i + 2, o2)
                 ELSE [ok |-> FALSE, options |-> o]
            ELSE IF o.destSeg = 0
            THEN LET destSeg == arg.hex
                 IN IF \/ destSeg = 0
                       \/ arg.len > 4
                       \/ destSeg % (BLOCK_SIZE \div 16) # 0
                       \/ destSeg < MIN_DEST_SEG
                    THEN [ok |-> FALSE, options |-> o]
                    ELSE ParseArgs(args, i + 1, [o EXCEPT !.destSeg = destSeg])
            ELSE IF o.romImgPath = 0
            THEN ParseArgs(args, i + 1, [o EXCEPT !.romImgPath = i])
            ELSE [ok |-> FALSE, options |-> o]

\* ParseCmdLine: [ok, options]
ParseCmdLine(args) == ParseArgs(args, 1, OptionsZero)

\* SpecParse: ParseCmdLine applied to "<segment> <file>"
ParseIdle == [pc |-> "off", hex |-> 0, len |-> 0, ok |-> FALSE, destSeg |-> 0]

\* SpecOverlap: HaveOverlappingBioses is not running
OverlapIdle == [pc |-> "off", sequenceSeg |-> 0, destSeg |-> 0, flashLen |-> 0,
                sigSeg |-> 0, sigBytes |-> <<0, 0>>, flashLenInSeg |-> 0,
                endSeg |-> 0, curr |-> 0, probes |-> {}, ret |-> FALSE]

\* the polling loops, the calibrator, the prompt and the block walk are
\* not running
NotRunning == [pc |-> "off"]
MoreIdle ==
    /\ pol = NotRunning
    /\ cal = NotRunning
    /\ prm = NotRunning
    /\ blk = NotRunning

(***************************************************************************)
(* SpecPoll: the polling loops of EraseBlock (after the 0x30 write) and of *)
(* ProgramBlock, one WaitForValue call per step.  The device decides       *)
(* whether a call sees the expected value.  pol.calls counts the calls,    *)
(* pol.counts collects the timeoutCount arguments they were given.         *)
(***************************************************************************)
EraseOuterStart_Half == ERASE_OUTER_LOOPS \div 2

\* for (timeoutOuterLoopCount = 1163; ...
EraseOuterStart == ERASE_OUTER_LOOPS

\* the function is entered with timeoutLoopCount as its last argument
PollCall ==
    /\ pol.pc = "call"
    /\ pol' = IF pol.fn = "EraseBlock"
              THEN [pol EXCEPT !.pc = "er_loop", !.timeoutOuterLoopCount = EraseOuterStart]
              ELSE [pol EXCEPT !.pc = "pg_loop", !.i = 0]
    /\ UNCHANGED <<plan, wfv, ident, ldr, prs, ovl, cal, prm, blk, mainVars>>

\* if (WaitForValue(dest, 0xFF, timeoutLoopCount)) return TRUE; else
\* --timeoutOuterLoopCount
PollEraseWait ==
    /\ pol.pc = "er_loop"
    /\ pol.timeoutOuterLoopCount # 0
    /\ \E match \in BOOLEAN :
         pol' = IF match
                THEN [pol EXCEPT !.pc = "done", !.ret = TRUE, !.calls = @ + 1,
                                 !.counts = @ \cup {pol.timeoutLoopCount}]
                ELSE [pol EXCEPT !.timeoutOuterLoopCount = @ - 1, !.calls = @ + 1,
                                 !.counts = @ \cup {pol.timeoutLoopCount}]
    /\ UNCHANGED <<plan, wfv, ident, ldr, prs, ovl, cal, prm, blk, mainVars>>

\* the for loop of EraseBlock is over: return FALSE
PollEraseExit ==
    /\ pol.pc = "er_loop"
    /\ pol.timeoutOuterLoopCount = 0
    /\ pol' = [pol EXCEPT !.pc = "done", !.ret = FALSE]
    /\ UNCHANGED <<plan, wfv, ident, ldr, prs, ovl, cal, prm, blk, mainVars>>

\* byte i of ProgramBlock: if (!WaitForValue(dest + i, source[i],
\* timeoutLoopCount)) return FALSE; else i++
PollProgramWait ==
    /\ pol.pc = "pg_loop"
    /\ pol.i < FLASH_BLOCK_SIZE
    /\ \E match \in BOOLEAN :
         pol' = IF match
                THEN [pol EXCEPT !.i = @ + 1, !.calls = @ + 1,
                                 !.counts = @ \cup {pol.timeoutLoopCount}]
                ELSE [pol EXCEPT !.pc = "done", !.ret = FALSE, !.calls = @ + 1,
                                 !.counts = @ \cup {pol.timeoutLoopCount}]
    /\ UNCHANGED <<plan, wfv, ident, ldr, prs, ovl, cal, prm, blk, mainVars>>

\* the for loop of ProgramBlock is over: return TRUE
PollProgramExit ==
    /\ pol.pc = "pg_loop"
    /\ pol.i >= FLASH_BLOCK_SIZE
    /\ pol' = [pol EXCEPT !.pc = "done", !.ret = TRUE]
    /\ UNCHANGED <<plan, wfv, ident, ldr, prs, ovl, cal, prm, blk, mainVars>>

(***************************************************************************)
(* SpecCal: CalculateTimeoutLoopCount of the DOS build, one statement or   *)
(* one pass of a loop per step.  cal.tick is the BIOS tick byte at         *)
(* 0040:006C, advanced by CalTick; the program samples it far more often   *)
(* than it advances, so it advances at most once between two samples.      *)
(* cal.iters counts the WaitForValue(destPtr, expectedValue, 256) calls,   *)
(* cal.ticks the advances of the tick byte.                                *)
(***************************************************************************)
CalContinue_NoLimit(tickLoopCount, tick, tickValue) == tick = tickValue

\* tickLoopCount < 0xFFFF && *biosTimerLsb == tickValue
CalContinue(tickLoopCount, tick, tickValue) ==
    tickLoopCount < Word16 - 1 /\ tick = tickValue

\* the timer interrupt advances the tick byte
CalTick ==
    /\ cal.pc \in {"wait1", "for", "wait2"}
    /\ cal.tick = cal.tickValue
    /\ cal' = [cal EXCEPT !.tick = (@ + 1) % 256, !.ticks = @ + 1]
    /\ UNCHANGED <<plan, wfv, ident, ldr, prs, ovl, pol, prm, blk, mainVars>>

\* tickValue = *biosTimerLsb, both times; the second one is followed by
\* the for loop's tickLoopCount = 0
CalRead ==
    /\ cal.pc \in {"read1", "read2"}
    /\ cal' = IF cal.pc = "read1"
              THEN [cal EXCEPT !.pc = "wait1", !.tickValue = cal.tick]
              ELSE [cal EXCEPT !.pc = "for", !.tickValue = cal.tick, !.tickLoopCount = 0]
    /\ UNCHANGED <<plan, wfv, ident, ldr, prs, ovl, pol, prm, blk, mainVars>>

\* while (*biosTimerLsb == tickValue) {} has seen the change, the first
\* time before the measurement and the second time before the return
CalWait ==
    /\ cal.pc \in {"wait1", "wait2"}
    /\ cal.tick # cal.tickValue
    /\ cal' = IF cal.pc = "wait1"
              THEN [cal EXCEPT !.pc = "read2"]
              ELSE [cal EXCEPT !.pc = "done", !.ret = cal.tickLoopCount]
    /\ UNCHANGED <<plan, wfv, ident, ldr, prs, ovl, pol, prm, blk, mainVars>>

\* one test of the for loop: the WaitForValue call that runs to its timeout
\* and tickLoopCount++ on an unsigned short, or the end of the loop
CalFor ==
    /\ cal.pc = "for"
    /\ cal' = IF CalContinue(cal.tickLoopCount, cal.tick, cal.tickValue)
              THEN [cal EXCEPT !.tickLoopCount = (@ + 1) % Word16, !.iters = @ + 1]
              ELSE [cal EXCEPT !.pc = "wait2"]
    /\ UNCHANGED <<plan, wfv, ident, ldr, prs, ovl, pol, prm, blk, mainVars>>

(***************************************************************************)
(* SpecOverlap: HaveOverlappingBioses, one pass of its for loop per step,  *)
(* all locals unsigned short.  Memory holds 00 00 at every segment start   *)
(* except ovl.sigSeg, which holds ovl.sigBytes.  ovl.probes collects the   *)
(* segments handed to IsBiosAtSeg.                                         *)
(***************************************************************************)
twoKInSeg == (2 * 1024) \div 16
thirtyTwoKInSeg == (32 \div 16) * 1024

\* the two bytes at MK_FP(seg, 0)
OverlapMem(seg) == IF seg = ovl.sigSeg THEN ovl.sigBytes ELSE <<0, 0>>

IsBiosAtSeg(seg) ==
    LET ptr == OverlapMem(seg)
    IN ptr[1] = 85 \/ ptr[2] = 255

\* the declarations and the for loop's initialisation
OverlapCall ==
    /\ ovl.pc = "call"
    /\ ovl' = [ovl EXCEPT !.pc = "loop",
                          !.flashLenInSeg = (ovl.flashLen \div 16) % Word16,
                          !.endSeg = (ovl.sequenceSeg + thirtyTwoKInSeg) % Word16,
                          !.curr = ovl.sequenceSeg]
    /\ UNCHANGED <<plan, wfv, ident, ldr, prs, moreVars, mainVars>>

\* curr < endSeg fails: return FALSE
OverlapExit ==
    /\ ovl.pc = "loop"
    /\ ~(ovl.curr < ovl.endSeg)
    /\ ovl' = [ovl EXCEPT !.pc = "done", !.ret = FALSE]
    /\ UNCHANGED <<plan, wfv, ident, ldr, prs, moreVars, mainVars>>

\* curr == destSeg: curr += flashLenInSeg; continue; and the loop's increment
OverlapSkip ==
    /\ ovl.pc = "loop"
    /\ ovl.curr < ovl.endSeg
    /\ ovl.curr = ovl.destSeg
    /\ ovl' = [ovl EXCEPT !.curr = (((ovl.curr + ovl.flashLenInSeg) % Word16)
                                        + twoKInSeg) % Word16]
    /\ UNCHANGED <<plan, wfv, ident, ldr, prs, moreVars, mainVars>>

\* IsBiosAtSeg(curr): return TRUE, or the loop's increment
OverlapProbe ==
    /\ ovl.pc = "loop"
    /\ ovl.curr < ovl.endSeg
    /\ ovl.curr # ovl.destSeg
    /\ IF IsBiosAtSeg(ovl.curr)
       THEN ovl' = [ovl EXCEPT !.pc = "done", !.ret = TRUE,
                               !.probes = @ \cup {ovl.curr}]
       ELSE ovl' = [ovl EXCEPT !.curr = (ovl.curr + twoKInSeg) % Word16,
                               !.probes = @ \cup {ovl.curr}]
    /\ UNCHANGED <<plan, wfv, ident, ldr, prs, moreVars, mainVars>>

(***************************************************************************)
(* Spec: the image file and its loader.                                    *)
(***************************************************************************)
Samples == 0 .. (BlockLen - 1)
\* offset inside a 4 KiB block of the j-th byte the model carries
Off(j) == (j * FLASH_BLOCK_SIZE) \div BlockLen
\* most blocks an image of the modelled files can have
MaxBlocks == ((MaxFileK * 1024) \div FLASH_BLOCK_SIZE) + 1
Blocks == 0 .. (MaxBlocks - 1)

FileLens == { k * 1024 : k \in 0 .. MaxFileK }
\* the length standing for a file that fopen cannot open
NoFile == 0 - 1
\* byte values found in image files (0x00, 0xA5)
FileVals == {0, 165}
\* file positions whose byte the model carries
FilePositions(len) ==
    { b * FLASH_BLOCK_SIZE + Off(j) : b \in Blocks, j \in Samples } \cap (0 .. (len - 1))
\* -size values tried (0: option absent)
SizeOverrides == {0, 2, 8}

Min(a, b) == IF a < b THEN a ELSE b

PadByte_FF == 256 - 1

\* value written by memset(buffer, 0, FLASH_BLOCK_SIZE)
PadByte == 0

\* the reading loop of LoadRomDataFromFile; st.blocks lists, for every block
\* allocated, the file position it was read from and the bytes fread returned
RECURSIVE ReadLoop(_, _)
ReadLoop(len, st) ==
    IF st.eof \/ st.sizeRemaining <= 0 THEN st
    ELSE IF st.numRomBlocks >= MAX_ROM_BLOCK_COUNT THEN [st EXCEPT !.tooBig = TRUE]
    ELSE LET readSize == IF st.sizeRemaining < FLASH_BLOCK_SIZE
                         THEN st.sizeRemaining % Word16
                         ELSE FLASH_BLOCK_SIZE
             got      == Min(readSize, len - st.pos)
         IN ReadLoop(len,
                [st EXCEPT !.sizeRemaining = @ - readSize,
                           !.pos = @ + got,
                           !.eof = (got < readSize),
                           !.origRomSize = @ + got,
                           !.numRomBlocks = @ + 1,
                           !.blocks = Append(@, [start |-> st.pos, got |-> got])])

RECURSIVE PadLoop_2K(_)
PadLoop_2K(st) ==
    IF st.sizeRemaining <= 0 THEN st
    ELSE PadLoop_2K([st EXCEPT !.sizeRemaining = @ - ROM_BLOCK_SIZE_,
                               !.numRomBlocks = @ + 1,
                               !.blocks = Append(@, [start |-> 0, got |-> 0])])

\* "Add 4K blocks if there is remaining size."
RECURSIVE PadLoop(_)
PadLoop(st) ==
    IF st.sizeRemaining <= 0 THEN st
    ELSE PadLoop([st EXCEPT !.sizeRemaining = @ - FLASH_BLOCK_SIZE,
                            !.numRomBlocks = @ + 1,
                            !.blocks = Append(@, [start |-> 0, got |-> 0])])

RomDataZero == [romBlocks |-> <<>>, numRomBlocks |-> 0, romSize |-> 0, origRomSize |-> 0]

LoadLoops_NoPad(len, sizeOverrideK) ==
    LET limit == IF sizeOverrideK > 0 THEN sizeOverrideK * 1024
                 ELSE MAX_ROM_BLOCK_COUNT * FLASH_BLOCK_SIZE
        st0   == [sizeRemaining |-> limit, pos |-> 0, eof |-> FALSE, tooBig |-> FALSE,
                  origRomSize |-> 0, numRomBlocks |-> 0, blocks |-> <<>>]
    IN ReadLoop(len, st0)

\* the two loops of LoadRomDataFromFile on a file of len bytes
LoadLoops(len, sizeOverrideK) ==
    LET limit == IF sizeOverrideK > 0 THEN sizeOverrideK * 1024
                 ELSE MAX_ROM_BLOCK_COUNT * FLASH_BLOCK_SIZE
        st0   == [sizeRemaining |-> limit, pos |-> 0, eof |-> FALSE, tooBig |-> FALSE,
                  origRomSize |-> 0, numRomBlocks |-> 0, blocks |-> <<>>]
        st1   == ReadLoop(len, st0)
    IN IF sizeOverrideK > 0 /\ ~st1.tooBig THEN PadLoop(st1) ELSE st1

\* the checks of LoadRomDataFromFile: too many blocks, empty, size not a
\* multiple of ROM_BLOCK_SIZE__K
LoadAccepts(st) ==
    IF st.tooBig THEN FALSE
    ELSE IF st.origRomSize = 0 THEN FALSE
    ELSE IF st.origRomSize % ROM_BLOCK_SIZE__K # 0 THEN FALSE
    ELSE TRUE

\* LoadRomDataFromFile: [ok, romData]
LoadRomDataFromFile(len, data, sizeOverrideK) ==
    LET st2   == LoadLoops(len, sizeOverrideK)
        rd    == [romBlocks |->
                     [k \in 1 .. st2.numRomBlocks |->
                        [j \in Samples |->
                           IF Off(j) < st2.blocks[k].got
                           THEN data[st2.blocks[k].start + Off(j)]
                           ELSE PadByte]],
                  numRomBlocks |-> st2.numRomBlocks,
                  romSize      |-> st2.numRomBlocks * FLASH_BLOCK_SIZE,
                  origRomSize  |-> st2.origRomSize]
    IN IF len = NoFile THEN [ok |-> FALSE, romData |-> RomDataZero]
       ELSE [ok |-> LoadAccepts(st2), romData |-> rd]

\* SpecLoad: the loader applied to a file length and a -size value
LoadIdle == [pc |-> "off", len |-> 0, sizeOverrideK |-> 0, ok |-> FALSE,
             numRomBlocks |-> 0, romSize |-> 0, origRomSize |-> 0]

LoadCall ==
    /\ ldr.pc = "call"
    /\ LET st == LoadLoops(ldr.len, ldr.sizeOverrideK)
       IN ldr' = [ldr EXCEPT !.pc = "done",
                             !.ok = LoadAccepts(st),
                             !.numRomBlocks = st.numRomBlocks,
                             !.romSize = st.numRomBlocks * FLASH_BLOCK_SIZE,
                             !.origRomSize = st.origRomSize]
    /\ UNCHANGED <<plan, wfv, ident, prs, ovl, moreVars, mainVars>>


(***************************************************************************)
(* Spec: the SST39SF0x0 device behind the memory window.  It decodes the   *)
(* command writes on address lines A14..A0, is busy from an erase or       *)
(* program command until the operation completes, and answers reads with   *)
(* array data, the software ID or, while busy, a status byte.              *)
(***************************************************************************)
RECURSIVE BitAnd(_, _)
BitAnd(a, b) ==
    IF a = 0 \/ b = 0 THEN 0
    ELSE (a % 2) * (b % 2) + 2 * BitAnd(a \div 2, b \div 2)

NoOp == [op |-> "none", addr |-> 0, val |-> 0]

\* the device after one of its cells has lost its charge: the byte at addr
\* reads as erased again
DevLose(d, addr) ==
    [d EXCEPT !.lost = TRUE,
              !.mem = [a \in DOMAIN d.mem |-> IF a = addr THEN 255 ELSE d.mem[a]]]

\* the device after the pending erase or program operation has completed
DevComplete(d) ==
    IF d.busy.op = "erase"
    THEN [d EXCEPT !.busy = NoOp,
                   !.mem = [a \in DOMAIN d.mem |->
                              IF a \div FLASH_BLOCK_SIZE = d.busy.addr \div FLASH_BLOCK_SIZE
                              THEN 255 ELSE d.mem[a]]]
    ELSE IF d.busy.op = "prog"
    THEN [d EXCEPT !.busy = NoOp,
                   !.mem = [a \in DOMAIN d.mem |->
                              IF a = d.busy.addr THEN BitAnd(d.mem[a], d.busy.val)
                              ELSE d.mem[a]]]
    ELSE d

\* the device after the host writes val to physical address addr
DevWrite(d, addr, val) ==
    LET a == addr % sequenceWindowSize
    IN IF d.busy.op # "none" THEN d
       ELSE IF d.cmd = 0 THEN
            IF a = ADDR_5555 /\ val = 170 THEN [d EXCEPT !.cmd = 1]
            ELSE IF val = 240 THEN [d EXCEPT !.mode = "read"]
            ELSE d
       ELSE IF d.cmd = 1 THEN
            IF a = ADDR_2AAA /\ val = 85 THEN [d EXCEPT !.cmd = 2]
            ELSE [d EXCEPT !.cmd = 0]
       ELSE IF d.cmd = 2 THEN
            IF a = ADDR_5555 /\ val = 160 THEN [d EXCEPT !.cmd = 3]
            ELSE IF a = ADDR_5555 /\ val = 128 THEN [d EXCEPT !.cmd = 4]
            ELSE IF a = ADDR_5555 /\ val = 144 THEN [d EXCEPT !.cmd = 0, !.mode = "id"]
            ELSE IF a = ADDR_5555 /\ val = 240 THEN [d EXCEPT !.cmd = 0, !.mode = "read"]
            ELSE [d EXCEPT !.cmd = 0]
       ELSE IF d.cmd = 3 THEN
            [d EXCEPT !.cmd = 0, !.busy = [op |-> "prog", addr |-> addr, val |-> val]]
       ELSE IF d.cmd = 4 THEN
            IF a = ADDR_5555 /\ val = 170 THEN [d EXCEPT !.cmd = 5]
            ELSE [d EXCEPT !.cmd = 0]
       ELSE IF d.cmd = 5 THEN
            IF a = ADDR_2AAA /\ val = 85 THEN [d EXCEPT !.cmd = 6]
            ELSE [d EXCEPT !.cmd = 0]
       ELSE IF val = 48
            THEN [d EXCEPT !.cmd = 0, !.busy = [op |-> "erase", addr |-> addr, val |-> val]]
            ELSE [d EXCEPT !.cmd = 0]

\* the byte the device drives when the host reads physical address addr;
\* bytes the model does not carry read as 0xFF
DevRead(d, addr) ==
    IF d.busy.op = "prog" THEN (d.busy.val + 128) % 256
    ELSE IF d.busy.op = "erase" THEN 0
    ELSE IF d.mode = "id" THEN (IF addr % 2 = 0 THEN d.id[1] ELSE d.id[2])
    ELSE IF addr \in DOMAIN d.mem THEN d.mem[addr]
    ELSE 255

(***************************************************************************)
(* Spec: main() from LoadRomDataFromFile on.                               *)
(***************************************************************************)
\* MK_FP(seg, off) as a physical address
MK_FP(seg, off) == seg * 16 + off

\* one device access as the bus sees it; line is the source line issuing it
\* and ie the interrupt flag at that moment
Access(op, addr, val, line) ==
    [op |-> op, addr |-> addr, val |-> val, line |-> line, ie |-> intEnabled]

Push(t, e) ==
    LET u == Append(t, e)
    IN IF Len(u) > TraceWin THEN SubSeq(u, Len(u) - TraceWin + 1, Len(u)) ELSE u

LocInit == [blockIndex |-> 0, curSeg |-> 0, i |-> 0, numBlocksFlashed |-> 0,
            errorString |-> "", step |-> 0, vendorId |-> 0, deviceId |-> 0]

\* what the run has done so far: the name detected, FlashRom's return value,
\* VerifyRom's verdict, main's return value (-1: none yet), the key pressed
\* and the answer GetYNConfirmation took from it, the number of erase and
\* program writes, and per image block whether it differed when FlashRom
\* compared it, the erase commands and the data bytes written to it
ResultInit == [deviceName |-> "", flashed |-> 0, returned |-> FALSE, verified |-> "none",
               exitCode |-> -1, matchAtStart |-> FALSE, writes |-> 0, answer |-> "",
               key |-> "", diff |-> {},
               erases |-> [b \in 0 .. (MaxBlocks - 1) |-> 0],
               progs |-> [b \in 0 .. (MaxBlocks - 1) |-> 0]]

BlockEqual_Inverted(d, seg, block) ==
    \E j \in Samples : DevRead(d, MK_FP(seg, Off(j))) # block[j]

BlockEqual_FirstByte(d, seg, block) ==
    DevRead(d, MK_FP(seg, Off(0))) = block[0]

\* memcmp(destPtr, romBlocks[blockIndex], FLASH_BLOCK_SIZE) == 0
BlockEqual(d, seg, block) ==
    \A j \in Samples : DevRead(d, MK_FP(seg, Off(j))) = block[j]

\* seg += blockSizeInSeg on an unsigned short
NextSeg(seg) == (seg + blockSizeInSeg) % Word16

\* main: ParseCmdLine; the usage text and return 1 when it fails
Parse ==
    /\ pc = "parse"
    /\ LET r == ParseCmdLine(argv)
       IN /\ options' = r.options
          /\ IF r.ok
             THEN /\ pc' = "load"
                  /\ UNCHANGED result
             ELSE /\ pc' = "exit"
                  /\ result' = [result EXCEPT !.exitCode = 1]
    /\ UNCHANGED <<auxVars, argv, fileLen, fileData, romData, timeoutLoopCount, sequenceSeg,
                   dev, intEnabled, ints, trace, loc>>

\* main: LoadRomDataFromFile, FreeRomData and return 1 when it fails
Load ==
    /\ pc = "load"
    /\ LET r == LoadRomDataFromFile(fileLen, fileData, options.sizeOverrideK)
       IN IF r.ok
          THEN /\ romData' = r.romData
               /\ pc' = "calibrate"
               /\ UNCHANGED result
          ELSE /\ romData' = RomDataZero
               /\ pc' = "exit"
               /\ result' = [result EXCEPT !.exitCode = 1]
    /\ UNCHANGED <<auxVars, argv, options, fileLen, fileData, timeoutLoopCount, sequenceSeg,
                   dev, intEnabled, ints, trace, loc>>

\* loop counts the calibration returns
TimeoutCounts == {1000}

\* ProcessRom: timeoutLoopCount = CalculateTimeoutLoopCount(options->destSeg)
Calibrate ==
    /\ pc = "calibrate"
    /\ \E n \in TimeoutCounts : timeoutLoopCount' = n
    /\ pc' = "plan"
    /\ UNCHANGED <<auxVars, argv, options, fileLen, fileData, romData, sequenceSeg,
                   dev, intEnabled, ints, trace, loc, result>>

\* ProcessRom: sequenceSeg = CalculateSequenceSeg(options->destSeg, romData->romSize)
Plan ==
    /\ pc = "plan"
    /\ sequenceSeg' = CalculateSequenceSeg(options.destSeg, romData.romSize)
    /\ pc' = "det_cli"
    /\ UNCHANGED <<auxVars, argv, options, fileLen, fileData, romData, timeoutLoopCount,
                   dev, intEnabled, ints, trace, loc, result>>

(***************************************************************************)
(* DetectDeviceType                                                        *)
(***************************************************************************)
\* the interrupt flag after DisableInterrupts() (asm cli)
DisableInterrupts_Nop == intEnabled

DisableInterrupts == FALSE

DetectDisable ==
    /\ pc = "det_cli"
    /\ intEnabled' = DisableInterrupts
    /\ ints' = [ints EXCEPT !.dis = @ + 1]
    /\ loc' = [LocInit EXCEPT !.step = 1]
    /\ pc' = "det_unlock"
    /\ UNCHANGED <<auxVars, argv, options, fileLen, fileData, romData, timeoutLoopCount,
                   sequenceSeg, dev, trace, result>>

\* "Enter software ID": offset, value and source line of each write
IdEntrySeq == << <<ADDR_5555, 170, 472>>, <<ADDR_2AAA, 85, 473>>, <<ADDR_5555, 144, 474>> >>

DetectUnlockWrite ==
    /\ pc = "det_unlock"
    /\ LET w == IdEntrySeq[loc.step]
           a == MK_FP(sequenceSeg, w[1])
       IN /\ dev' = DevWrite(dev, a, w[2])
          /\ trace' = Push(trace, Access("W", a, w[2], w[3]))
    /\ IF loc.step < Len(IdEntrySeq)
       THEN /\ loc' = [loc EXCEPT !.step = @ + 1]
            /\ pc' = pc
       ELSE /\ loc' = [loc EXCEPT !.step = 1]
            /\ pc' = "det_read"
    /\ UNCHANGED <<auxVars, argv, options, fileLen, fileData, romData, timeoutLoopCount,
                   sequenceSeg, intEnabled, ints, result>>

IdReadSeq_DeviceFirst == << <<0, 476>>, <<0, 477>>, <<0, 478>>, <<1, 480>>, <<0, 481>> >>

\* offset read and source line of the five reads of DetectDeviceType
IdReadSeq == << <<0, 476>>, <<0, 477>>, <<0, 478>>, <<0, 480>>, <<1, 481>> >>

DetectRead ==
    /\ pc = "det_read"
    /\ LET r == IdReadSeq[loc.step]
           a == MK_FP(options.destSeg, r[1])
           v == DevRead(dev, a)
       IN /\ trace' = Push(trace, Access("R", a, v, r[2]))
          /\ IF loc.step < Len(IdReadSeq)
             THEN /\ loc' = [loc EXCEPT !.step = @ + 1, !.vendorId = v]
                  /\ pc' = pc
             ELSE /\ loc' = [loc EXCEPT !.step = 0, !.deviceId = v]
                  /\ pc' = "det_exit"
    /\ UNCHANGED <<auxVars, argv, options, fileLen, fileData, romData, timeoutLoopCount,
                   sequenceSeg, dev, intEnabled, ints, result>>

\* "Exit software ID": seqPtr[0x5555] = 0xF0
DetectExitWrite ==
    /\ pc = "det_exit"
    /\ LET a == MK_FP(sequenceSeg, ADDR_5555)
       IN /\ dev' = DevWrite(dev, a, 240)
          /\ trace' = Push(trace, Access("W", a, 240, 484))
    /\ pc' = "det_sti"
    /\ UNCHANGED <<auxVars, argv, options, fileLen, fileData, romData, timeoutLoopCount,
                   sequenceSeg, intEnabled, ints, loc, result>>

DetectEnable ==
    /\ pc = "det_sti"
    /\ intEnabled' = TRUE
    /\ ints' = [ints EXCEPT !.en = @ + 1]
    /\ pc' = "det_ret"
    /\ UNCHANGED <<auxVars, argv, options, fileLen, fileData, romData, timeoutLoopCount,
                   sequenceSeg, dev, trace, loc, result>>

DeviceName_AnyVendor(vendorId, deviceId) ==
    CASE deviceId = 180 -> "SST39SF512"
      [] deviceId = 181 -> "SST39SF010"
      [] deviceId = 182 -> "SST39SF020"
      [] deviceId = 183 -> "SST39SF040"
      [] OTHER -> "NULL"

\* the name DetectDeviceType returns ("NULL" for none): vendor 0xBF and
\* device 0xB4, 0xB5, 0xB6 or 0xB7
DeviceName(vendorId, deviceId) ==
    IF vendorId = 191
    THEN CASE deviceId = 180 -> "SST39SF512"
           [] deviceId = 181 -> "SST39SF010"
           [] deviceId = 182 -> "SST39SF020"
           [] deviceId = 183 -> "SST39SF040"
           [] OTHER -> "NULL"
    ELSE "NULL"

\* SpecIdent: the classification applied to one pair of ID bytes
IdentIdle == [pc |-> "off", vendorId |-> 0, deviceId |-> 0, name |-> ""]

IdentCall ==
    /\ ident.pc = "call"
    /\ ident' = [ident EXCEPT !.pc = "done",
                              !.name = DeviceName(ident.vendorId, ident.deviceId)]
    /\ UNCHANGED <<plan, wfv, ldr, prs, ovl, moreVars, mainVars>>

MainReturn_Raw(flashResult) == IF flashResult THEN 1 ELSE 0

\* main: return flashResult ? 0 : 1
MainReturn(flashResult) == IF flashResult THEN 0 ELSE 1

AfterDetect_AlwaysPrompt(name) == "prompt"

\* ProcessRom: if (!deviceName) { ...; return FALSE; }, else on to the prompt
AfterDetect(name) == IF name = "NULL" THEN "exit" ELSE "prompt"

\* DetectDeviceType returns; ProcessRom returns FALSE and main 1 on NULL
DetectReturn ==
    /\ pc = "det_ret"
    /\ LET name == DeviceName(loc.vendorId, loc.deviceId)
       IN /\ result' = [result EXCEPT !.deviceName = name,
                                      !.exitCode = IF name = "NULL"
                                                   THEN MainReturn(FALSE) ELSE @]
          /\ pc' = AfterDetect(name)
    /\ UNCHANGED <<auxVars, argv, options, fileLen, fileData, romData, timeoutLoopCount,
                   sequenceSeg, dev, intEnabled, ints, trace, loc>>

\* keys the user may press at "Continue Y/N?"
Keys == {"y", "Y", "n", "N", "x"}
ToLower_Identity(k) == k

ToLower(k) == IF k = "Y" THEN "y" ELSE IF k = "N" THEN "n" ELSE k

AfterAnswer_AlwaysFlash(c) == "fl_cli"

\* ProcessRom: if (!GetYNConfirmation()) { ...; return FALSE; }, else FlashRom
AfterAnswer(c) == IF c = "y" THEN "fl_cli" ELSE "exit"

\* GetYNConfirmation: one getch(); ProcessRom returns FALSE on 'n'
GetYNConfirmation ==
    /\ pc = "prompt"
    /\ \E k \in Keys :
         LET c == ToLower(k)
         IN IF c # "y" /\ c # "n"
            THEN /\ pc' = pc
                 /\ result' = result
            ELSE /\ pc' = AfterAnswer(c)
                 /\ result' = [result EXCEPT !.answer = c, !.key = k,
                                             !.exitCode = IF c = "y" THEN @
                                                          ELSE MainReturn(FALSE)]
    /\ UNCHANGED <<auxVars, argv, options, fileLen, fileData, romData, timeoutLoopCount,
                   sequenceSeg, dev, intEnabled, ints, trace, loc>>

\* SpecPrompt: keys at the prompt, among them some that are neither y nor n
PromptKeys == Keys \cup {"q", "0", " "}

\* one pass of GetYNConfirmation's do/while: charInput = tolower(getch());
\* after the loop the function returns charInput == 'y' and ProcessRom
\* goes on to FlashRom or returns FALSE.  prm.keys is what was typed.
PromptKey ==
    /\ prm.pc = "getch"
    /\ Len(prm.keys) < MaxKeys
    /\ \E k \in PromptKeys :
         LET charInput == ToLower(k)
         IN prm' = IF charInput # "y" /\ charInput # "n"
                   THEN [prm EXCEPT !.keys = Append(@, k)]
                   ELSE [prm EXCEPT !.pc = "done", !.keys = Append(@, k),
                                    !.ret = (charInput = "y"),
                                    !.next = AfterAnswer(charInput)]
    /\ UNCHANGED <<plan, wfv, ident, ldr, prs, ovl, pol, cal, blk, mainVars>>

(***************************************************************************)
(* FlashRom, EraseBlock, ProgramBlock                                      *)
(***************************************************************************)
\* where FlashRom continues after "break": the EnableInterrupts() call
AfterBreak_Return == "fl_ret"

AfterBreak == "fl_sti"

\* image block k (0-based) equals the device block it is programmed to
ImageBlockOnDevice(k) ==
    \A j \in Samples :
        dev.mem[MK_FP(options.destSeg + k * blockSizeInSeg, Off(j))] = romData.romBlocks[k + 1][j]

FlashDisable ==
    /\ pc = "fl_cli"
    /\ intEnabled' = DisableInterrupts
    /\ ints' = [ints EXCEPT !.dis = @ + 1]
    /\ loc' = [LocInit EXCEPT !.curSeg = options.destSeg]
    /\ result' = [result EXCEPT !.matchAtStart =
                      \A k \in 0 .. (romData.numRomBlocks - 1) : ImageBlockOnDevice(k)]
    /\ pc' = "fl_loop"
    /\ UNCHANGED <<auxVars, argv, options, fileLen, fileData, romData, timeoutLoopCount,
                   sequenceSeg, dev, trace>>

\* for (...; blockIndex < romData->numRomBlocks; ...) is over
FlashLoopExit ==
    /\ pc = "fl_loop"
    /\ loc.blockIndex >= romData.numRomBlocks
    /\ pc' = "fl_sti"
    /\ UNCHANGED <<auxVars, argv, options, fileLen, fileData, romData, timeoutLoopCount,
                   sequenceSeg, dev, intEnabled, ints, trace, loc, result>>

\* memcmp of the block against the device; "continue" when equal
FlashCompare ==
    /\ pc = "fl_loop"
    /\ loc.blockIndex < romData.numRomBlocks
    /\ trace' = Push(trace, Access("R", MK_FP(loc.curSeg, 0), 0, 573))
    /\ IF BlockEqual(dev, loc.curSeg, romData.romBlocks[loc.blockIndex + 1])
       THEN /\ loc' = [loc EXCEPT !.blockIndex = @ + 1, !.curSeg = NextSeg(@)]
            /\ pc' = pc
       ELSE /\ loc' = [loc EXCEPT !.step = 1]
            /\ pc' = "er_unlock"
    /\ result' = [result EXCEPT !.diff = IF ImageBlockOnDevice(loc.blockIndex)
                                         THEN @ ELSE @ \cup {loc.blockIndex}]
    /\ UNCHANGED <<auxVars, argv, options, fileLen, fileData, romData, timeoutLoopCount,
                   sequenceSeg, dev, intEnabled, ints>>

\* EraseBlock: the five writes before the erase command
EraseSeq_Short == << <<ADDR_5555, 170, 513>>, <<ADDR_2AAA, 85, 514>>, <<ADDR_5555, 128, 515>> >>

EraseSeq == << <<ADDR_5555, 170, 513>>, <<ADDR_2AAA, 85, 514>>, <<ADDR_5555, 128, 515>>,
               <<ADDR_5555, 170, 516>>, <<ADDR_2AAA, 85, 517>> >>

EraseUnlockWrite ==
    /\ pc = "er_unlock"
    /\ LET w == EraseSeq[loc.step]
           a == MK_FP(sequenceSeg, w[1])
       IN /\ dev' = DevWrite(dev, a, w[2])
          /\ trace' = Push(trace, Access("W", a, w[2], w[3]))
    /\ IF loc.step < Len(EraseSeq)
       THEN /\ loc' = [loc EXCEPT !.step = @ + 1]
            /\ pc' = pc
       ELSE /\ loc' = [loc EXCEPT !.step = 0]
            /\ pc' = "er_cmd"
    /\ result' = [result EXCEPT !.writes = @ + 1]
    /\ UNCHANGED <<auxVars, argv, options, fileLen, fileData, romData, timeoutLoopCount,
                   sequenceSeg, intEnabled, ints>>

\* dest[0] = 0x30
EraseCommandWrite ==
    /\ pc = "er_cmd"
    /\ LET a == MK_FP(loc.curSeg, 0)
       IN /\ dev' = DevWrite(dev, a, 48)
          /\ trace' = Push(trace, Access("W", a, 48, 518))
    /\ pc' = "er_poll"
    /\ result' = [result EXCEPT !.writes = @ + 1, !.erases[loc.blockIndex] = @ + 1]
    /\ UNCHANGED <<auxVars, argv, options, fileLen, fileData, romData, timeoutLoopCount,
                   sequenceSeg, intEnabled, ints, loc>>

EraseDone_Always(v) == TRUE

\* WaitForValue(dest, 0xFF, timeoutLoopCount) saw the erased value
EraseDone(v) == v = 255

\* the polling loop of EraseBlock: up to ERASE_OUTER_LOOPS calls of
\* WaitForValue(dest, 0xFF, timeoutLoopCount); the device completes the erase
\* within them or not
ErasePoll ==
    /\ pc = "er_poll"
    /\ \E done \in BOOLEAN :
         LET d2 == IF done THEN DevComplete(dev) ELSE dev
             a  == MK_FP(loc.curSeg, 0)
             v  == DevRead(d2, a)
         IN /\ dev' = d2
            /\ trace' = Push(trace, Access("R", a, v, 523))
            /\ IF EraseDone(v)
               THEN /\ loc' = [loc EXCEPT !.i = 0, !.step = 1]
                    /\ pc' = "pg_unlock"
               ELSE /\ loc' = [loc EXCEPT !.errorString = "Timeout erasing block."]
                    /\ pc' = AfterBreak
    /\ UNCHANGED <<auxVars, argv, options, fileLen, fileData, romData, timeoutLoopCount,
                   sequenceSeg, intEnabled, ints, result>>

\* ProgramBlock: the three writes before each data byte
ProgramSeq_NoCommand == << <<ADDR_5555, 170, 539>>, <<ADDR_2AAA, 85, 540>> >>

ProgramSeq == << <<ADDR_5555, 170, 539>>, <<ADDR_2AAA, 85, 540>>, <<ADDR_5555, 160, 541>> >>

ProgramUnlockWrite ==
    /\ pc = "pg_unlock"
    /\ LET w == ProgramSeq[loc.step]
           a == MK_FP(sequenceSeg, w[1])
       IN /\ dev' = DevWrite(dev, a, w[2])
          /\ trace' = Push(trace, Access("W", a, w[2], w[3]))
    /\ IF loc.step < Len(ProgramSeq)
       THEN /\ loc' = [loc EXCEPT !.step = @ + 1]
            /\ pc' = pc
       ELSE /\ loc' = [loc EXCEPT !.step = 0]
            /\ pc' = "pg_data"
    /\ result' = [result EXCEPT !.writes = @ + 1]
    /\ UNCHANGED <<auxVars, argv, options, fileLen, fileData, romData, timeoutLoopCount,
                   sequenceSeg, intEnabled, ints>>

\* dest[i] = source[i]
ProgramDataWrite ==
    /\ pc = "pg_data"
    /\ LET a == MK_FP(loc.curSeg, Off(loc.i))
           v == romData.romBlocks[loc.blockIndex + 1][loc.i]
       IN /\ dev' = DevWrite(dev, a, v)
          /\ trace' = Push(trace, Access("W", a, v, 543))
    /\ pc' = "pg_poll"
    /\ result' = [result EXCEPT !.writes = @ + 1, !.progs[loc.blockIndex] = @ + 1]
    /\ UNCHANGED <<auxVars, argv, options, fileLen, fileData, romData, timeoutLoopCount,
                   sequenceSeg, intEnabled, ints, loc>>

\* WaitForValue(dest + i, source[i], timeoutLoopCount): the device completes
\* the byte program within the call or not; then i++, and after the last
\* byte ProgramBlock returns TRUE and FlashRom goes to the next block
ProgramPoll ==
    /\ pc = "pg_poll"
    /\ \E done \in BOOLEAN :
         LET d2 == IF done THEN DevComplete(dev) ELSE dev
             a  == MK_FP(loc.curSeg, Off(loc.i))
             v  == DevRead(d2, a)
         IN /\ dev' = d2
            /\ trace' = Push(trace, Access("R", a, v, 547))
            /\ IF v # romData.romBlocks[loc.blockIndex + 1][loc.i]
               THEN /\ loc' = [loc EXCEPT !.errorString = "Timeout programming block."]
                    /\ pc' = AfterBreak
               ELSE IF loc.i + 1 < BlockLen
               THEN /\ loc' = [loc EXCEPT !.i = @ + 1, !.step = 1]
                    /\ pc' = "pg_unlock"
               ELSE /\ loc' = [loc EXCEPT !.i = @ + 1,
                                          !.numBlocksFlashed = @ + 1,
                                          !.blockIndex = @ + 1,
                                          !.curSeg = NextSeg(@)]
                    /\ pc' = "fl_loop"
    /\ UNCHANGED <<auxVars, argv, options, fileLen, fileData, romData, timeoutLoopCount,
                   sequenceSeg, intEnabled, ints, result>>

FlashEnable ==
    /\ pc = "fl_sti"
    /\ intEnabled' = TRUE
    /\ ints' = [ints EXCEPT !.en = @ + 1]
    /\ pc' = "fl_ret"
    /\ UNCHANGED <<auxVars, argv, options, fileLen, fileData, romData, timeoutLoopCount,
                   sequenceSeg, dev, trace, loc, result>>

FlashRomResult_Count(errorString, numBlocksFlashed) == numBlocksFlashed

\* FlashRom: if (errorString) { ...; return -1; } return numBlocksFlashed;
FlashRomResult(errorString, numBlocksFlashed) ==
    IF errorString # "" THEN -1 ELSE numBlocksFlashed

AfterFlashRom_ReturnOnError(n) ==
    IF n <= 0 THEN "exit" ELSE "verify"

\* ProcessRom after FlashRom: return TRUE on 0, the error message and the
\* endless loop on a negative value, VerifyRom on a positive one
AfterFlashRom(n) ==
    IF n = 0 THEN "exit" ELSE IF n < 0 THEN "halt" ELSE "verify"

\* FlashRom returns -1 or numBlocksFlashed; ProcessRom returns TRUE (main: 0)
\* on 0, verifies on a positive count and halts on -1
FlashReturn ==
    /\ pc = "fl_ret"
    /\ LET n == FlashRomResult(loc.errorString, loc.numBlocksFlashed)
       IN /\ result' = [result EXCEPT !.flashed = n, !.returned = TRUE,
                                      !.exitCode = IF n = 0 THEN MainReturn(TRUE) ELSE @]
          /\ pc' = AfterFlashRom(n)
    /\ UNCHANGED <<auxVars, argv, options, fileLen, fileData, romData, timeoutLoopCount,
                   sequenceSeg, dev, intEnabled, ints, trace, loc>>

(***************************************************************************)
(* VerifyRom                                                               *)
(***************************************************************************)
VerifyScan_FirstBlockOnly(blockIndex, seg) ==
    IF romData.numRomBlocks = 0 \/ BlockEqual(dev, seg, romData.romBlocks[1])
    THEN romData.numRomBlocks
    ELSE 0

\* index of the first block VerifyRom finds different, numRomBlocks if none
RECURSIVE VerifyScan(_, _)
VerifyScan(blockIndex, seg) ==
    IF blockIndex >= romData.numRomBlocks THEN blockIndex
    ELSE IF ~BlockEqual(dev, seg, romData.romBlocks[blockIndex + 1]) THEN blockIndex
    ELSE VerifyScan(blockIndex + 1, NextSeg(seg))

RECURSIVE VerifyReads(_, _, _)
VerifyReads(t, k, last) ==
    IF k > last THEN t
    ELSE VerifyReads(Push(t, Access("R", MK_FP(options.destSeg + k * blockSizeInSeg, 0), 0, 614)),
                     k + 1, last)

\* VerifyRom, then ProcessRom's while (1) {}
VerifyRom ==
    /\ pc = "verify"
    /\ LET stop == VerifyScan(0, options.destSeg)
       IN /\ result' = [result EXCEPT !.verified =
                            IF stop >= romData.numRomBlocks THEN "pass" ELSE "fail"]
          /\ trace' = VerifyReads(trace, 0, Min(stop, romData.numRomBlocks - 1))
    /\ pc' = "halt"
    /\ UNCHANGED <<auxVars, argv, options, fileLen, fileData, romData, timeoutLoopCount,
                   sequenceSeg, dev, intEnabled, ints, loc>>

\* between FlashRom and VerifyRom a marginally programmed byte of the image
\* area may fall back to 0xFF, at most once in a run
DeviceLosesByte ==
    /\ pc = "verify"
    /\ ~dev.lost
    /\ \E b \in 0 .. (romData.numRomBlocks - 1), j \in Samples :
         LET a == MK_FP(options.destSeg + b * blockSizeInSeg, Off(j))
         IN /\ dev.mem[a] # 255
            /\ dev' = DevLose(dev, a)
    /\ UNCHANGED <<auxVars, pc, argv, options, fileLen, fileData, romData, timeoutLoopCount,
                   sequenceSeg, intEnabled, ints, trace, loc, result>>

\* ProcessRom: while (1) {}
Halt ==
    /\ pc = "halt"
    /\ UNCHANGED vars

(***************************************************************************)
(* Initial states and specifications.                                      *)
(***************************************************************************)
\* destination segments given on the command line (0xC800, 0xD100)
DestSegs == {51200, 53504}

\* command line arguments
AddrArg(seg, n) == [dash |-> FALSE, opt |-> "", hex |-> seg, len |-> n, num |-> 0]
NumArg(k, n)    == [dash |-> FALSE, opt |-> "", hex |-> 0, len |-> n, num |-> k]
OptArg(name)    == [dash |-> TRUE, opt |-> name, hex |-> 0, len |-> Len(name) + 1, num |-> 0]
FileArg         == [dash |-> FALSE, opt |-> "", hex |-> 0, len |-> 7, num |-> 0]

\* SSTFLASH [-size K] <memory address> <ROM image file>
GoodCmdLines ==
    { IF k = 0 THEN << AddrArg(seg, 4), FileArg >>
      ELSE << OptArg("size"), NumArg(k, 1), AddrArg(seg, 4), FileArg >> :
        seg \in DestSegs, k \in SizeOverrides }

\* command lines with an error: none, help, size without value, odd size,
\* size 300, unknown option, address 9000, C880, 0C800, no file, one more
BadCmdLines ==
    { << >>,
      << OptArg("?") >>,
      << OptArg("size") >>,
      << OptArg("size"), NumArg(3, 1), AddrArg(51200, 4), FileArg >>,
      << OptArg("size"), NumArg(300, 3), AddrArg(51200, 4), FileArg >>,
      << OptArg("fast"), AddrArg(51200, 4), FileArg >>,
      << AddrArg(36864, 4), FileArg >>,
      << AddrArg(51328, 4), FileArg >>,
      << AddrArg(51200, 5), FileArg >>,
      << AddrArg(51200, 4) >>,
      << AddrArg(51200, 4), FileArg, FileArg >> }

CmdLines == GoodCmdLines \cup BadCmdLines
\* software IDs of the device in the socket (0xBF 0xB6; 0xBF 0x00)
DeviceIds == { <<191, 182>>, <<191, 0>> }
\* what a device block holds before the run, relative to the image block it
\* will receive: the same bytes, erased flash, or the same bytes but for the
\* last one (0x5A)
DevPatterns == {"same", "erased", "stale"}

PatternByte(rd, p, b, j) ==
    LET img == IF b < rd.numRomBlocks THEN rd.romBlocks[b + 1][j] ELSE 0
    IN IF p = "erased" THEN 255
       ELSE IF p = "stale" /\ j = BlockLen - 1 THEN 90
       ELSE img

DevInitMem(d, rd, pat) ==
    [a \in { MK_FP(d + b * blockSizeInSeg, Off(j)) : b \in Blocks, j \in Samples } |->
        LET bj == CHOOSE x \in Blocks \X Samples :
                     MK_FP(d + x[1] * blockSizeInSeg, Off(x[2])) = a
        IN PatternByte(rd, pat[bj[1]], bj[1], bj[2])]

MainIdle ==
    /\ pc = "off"
    /\ argv = << >>
    /\ options = OptionsZero
    /\ fileLen = 0
    /\ fileData = <<>>
    /\ romData = RomDataZero
    /\ timeoutLoopCount = 0
    /\ sequenceSeg = 0
    /\ dev = [mem |-> <<>>, mode |-> "read", cmd |-> 0, busy |-> NoOp, id |-> <<0, 0>>,
              lost |-> FALSE]
    /\ intEnabled = TRUE
    /\ ints = [dis |-> 0, en |-> 0]
    /\ trace = <<>>
    /\ loc = LocInit
    /\ result = ResultInit

Init ==
    /\ plan = PlanIdle
    /\ wfv = WaitIdle
    /\ ident = IdentIdle
    /\ ldr = LoadIdle
    /\ prs = ParseIdle
    /\ ovl = OverlapIdle
    /\ MoreIdle
    /\ pc = "parse"
    /\ argv \in CmdLines
    /\ options = OptionsZero
    /\ fileLen \in FileLens \cup {NoFile}
    /\ fileData \in [FilePositions(fileLen) -> FileVals]
    /\ romData = RomDataZero
    /\ timeoutLoopCount = 0
    /\ sequenceSeg = 0
    /\ \E pat \in [Blocks -> DevPatterns], id \in DeviceIds :
         LET o == ParseCmdLine(argv).options
         IN
         dev = [mem  |-> DevInitMem(o.destSeg,
                                    LoadRomDataFromFile(fileLen, fileData,
                                                        o.sizeOverrideK).romData,
                                    pat),
                mode |-> "read", cmd |-> 0, busy |-> NoOp, id |-> id, lost |-> FALSE]
    /\ intEnabled = TRUE
    /\ ints = [dis |-> 0, en |-> 0]
    /\ trace = <<>>
    /\ loc = LocInit
    /\ result = ResultInit

Next ==
    \/ Parse
    \/ Load
    \/ Calibrate
    \/ Plan
    \/ DetectDisable
    \/ DetectUnlockWrite
    \/ DetectRead
    \/ DetectExitWrite
    \/ DetectEnable
    \/ DetectReturn
    \/ GetYNConfirmation
    \/ FlashDisable
    \/ FlashLoopExit
    \/ FlashCompare
    \/ EraseUnlockWrite
    \/ EraseCommandWrite
    \/ ErasePoll
    \/ ProgramUnlockWrite
    \/ ProgramDataWrite
    \/ ProgramPoll
    \/ FlashEnable
    \/ FlashReturn
    \/ DeviceLosesByte
    \/ VerifyRom
    \/ Halt

Spec == Init /\ [][Next]_vars

InitPlan ==
    /\ plan \in [pc : {"call"}, destSeg : PlanDestSegs, flashLen : PlanFlashLens, seqSeg : {0}]
    /\ wfv = WaitIdle
    /\ ident = IdentIdle
    /\ ldr = LoadIdle
    /\ prs = ParseIdle
    /\ ovl = OverlapIdle
    /\ MoreIdle
    /\ MainIdle

NextPlan == PlanCall

SpecPlan == InitPlan /\ [][NextPlan]_vars

InitWait ==
    /\ plan = PlanIdle
    /\ wfv \in { [pc |-> "read", n |-> n, timeoutCount |-> n, reads |-> 0, ret |-> FALSE] :
                   n \in WaitCounts }
    /\ ident = IdentIdle
    /\ ldr = LoadIdle
    /\ prs = ParseIdle
    /\ ovl = OverlapIdle
    /\ MoreIdle
    /\ MainIdle

NextWait ==
    \/ WaitRead
    \/ WaitDecrement

SpecWait == InitWait /\ [][NextWait]_vars

\* bytes a read of dest:0 or dest:1 can return
Bytes == 0 .. 255

InitIdent ==
    /\ plan = PlanIdle
    /\ wfv = WaitIdle
    /\ ident \in [pc : {"call"}, vendorId : Bytes, deviceId : Bytes, name : {""}]
    /\ ldr = LoadIdle
    /\ prs = ParseIdle
    /\ ovl = OverlapIdle
    /\ MoreIdle
    /\ MainIdle

NextIdent == IdentCall

SpecIdent == InitIdent /\ [][NextIdent]_vars

\* file lengths: every multiple of 1024 up to MaxLoadK KiB, and lengths next
\* to 0, 2048 and 4096
LoadLens ==
    { k * 1024 : k \in 0 .. MaxLoadK }
        \cup {1, 2, 3, 2046, 2047, 2049, 2050, 4095, 4097}
\* -size values ParseCmdLine accepts: 2, 4, ..., 256 (0: option absent)
LoadSizeOverrides == {0} \cup { 2 * k : k \in 1 .. (MAX_ROM_SIZE_K \div 2) }

\* segment arguments: every multiple of 0x80 that fits 16 bits, and values
\* next to 0xA000 and 0xC800 that are off the grid
ParseSegs ==
    { k * (blockSizeInSeg \div 2) : k \in 0 .. (2 * (Word16 \div blockSizeInSeg) - 1) }
        \cup {1, 16, 40961, 40976, 51201, 51216}
\* strlen of a segment argument: at least its significant hex digits, at
\* most one more than four (zero padded, or a fifth digit that strtol's
\* result loses when narrowed to unsigned short)
ParseArgLens(hex) ==
    { n \in 1 .. 5 : n = 5 \/ hex < 16 ^ n }

ParseCall ==
    /\ prs.pc = "call"
    /\ LET r == ParseCmdLine(<<AddrArg(prs.hex, prs.len), FileArg>>)
       IN prs' = [prs EXCEPT !.pc = "done", !.ok = r.ok, !.destSeg = r.options.destSeg]
    /\ UNCHANGED <<plan, wfv, ident, ldr, ovl, moreVars, mainVars>>

InitParse ==
    /\ plan = PlanIdle
    /\ wfv = WaitIdle
    /\ ident = IdentIdle
    /\ ldr = LoadIdle
    /\ prs \in { [pc |-> "call", hex |-> h, len |-> n, ok |-> FALSE, destSeg |-> 0] :
                   h \in ParseSegs, n \in 1 .. 5 }
    /\ prs.len \in ParseArgLens(prs.hex)
    /\ ovl = OverlapIdle
    /\ MoreIdle
    /\ MainIdle

NextParse == ParseCall

SpecParse == InitParse /\ [][NextParse]_vars

\* destination segments ParseCmdLine accepts
AcceptedDestSegs ==
    { h \in ParseSegs : ParseCmdLine(<<AddrArg(h, 4), FileArg>>).ok }

\* SpecPlanAll: the planner as ProcessRom calls it, on every segment
\* ParseCmdLine lets through
InitPlanAll ==
    /\ plan \in [pc : {"call"}, destSeg : AcceptedDestSegs, flashLen : PlanFlashLens,
                  seqSeg : {0}]
    /\ wfv = WaitIdle
    /\ ident = IdentIdle
    /\ ldr = LoadIdle
    /\ prs = ParseIdle
    /\ ovl = OverlapIdle
    /\ MoreIdle
    /\ MainIdle

NextPlanAll == PlanCall

SpecPlanAll == InitPlanAll /\ [][NextPlanAll]_vars

\* image sizes handed to HaveOverlappingBioses: romSize of 1, 2, 8, 9, 15,
\* 16, 32 and 64 blocks (4 KiB .. 256 KiB, around the 32 KiB and 64 KiB
\* thresholds of the planner)
OverlapFlashLens == { k * FLASH_BLOCK_SIZE : k \in {1, 2, 8, 9, 15, 16, 32, 64} }
\* the 2 KiB strides of the command window
OverlapWindow(seqSeg) == { seqSeg + k * twoKInSeg : k \in 0 .. 15 }
\* byte pairs at the one segment that differs from 00 00: an option ROM
\* header (55 AA) or erased flash (FF FF)
OverlapSigBytes == {<<85, 170>>, <<255, 255>>}

InitOverlap ==
    /\ plan = PlanIdle
    /\ wfv = WaitIdle
    /\ ident = IdentIdle
    /\ ldr = LoadIdle
    /\ prs = ParseIdle
    /\ \E d \in AcceptedDestSegs, len \in OverlapFlashLens :
         LET seqSeg == CalculateSequenceSeg(d, len)
         IN \E sig \in ({seqSeg} \X {<<0, 0>>})
                          \cup (OverlapWindow(seqSeg) \X OverlapSigBytes) :
              ovl = [OverlapIdle EXCEPT !.pc = "call", !.sequenceSeg = seqSeg,
                                        !.destSeg = d, !.flashLen = len,
                                        !.sigSeg = sig[1], !.sigBytes = sig[2]]
    /\ MoreIdle
    /\ MainIdle

NextOverlap ==
    \/ OverlapCall
    \/ OverlapExit
    \/ OverlapSkip
    \/ OverlapProbe

SpecOverlap == InitOverlap /\ [][NextOverlap]_vars

\* calibrated counts handed to FlashRom: the ends of the 16-bit range and
\* the value of the fake-DOS build
PollCounts == {0, 1, 1000, Word16 - 1}

InitPoll ==
    /\ plan = PlanIdle
    /\ wfv = WaitIdle
    /\ ident = IdentIdle
    /\ ldr = LoadIdle
    /\ prs = ParseIdle
    /\ ovl = OverlapIdle
    /\ \E f \in {"EraseBlock", "ProgramBlock"}, n \in PollCounts :
         pol = [pc |-> "call", fn |-> f, timeoutLoopCount |-> n,
                timeoutOuterLoopCount |-> 0, i |-> 0, calls |-> 0, counts |-> {},
                ret |-> FALSE]
    /\ cal = NotRunning
    /\ prm = NotRunning
    /\ blk = NotRunning
    /\ MainIdle

NextPoll ==
    \/ PollCall
    \/ PollEraseWait
    \/ PollEraseExit
    \/ PollProgramWait
    \/ PollProgramExit

\* SpecTimeouts: a run of main(), or the polling loops on their own
InitTimeouts == Init \/ InitPoll

NextTimeouts == Next \/ NextPoll

SpecTimeouts == InitTimeouts /\ [][NextTimeouts]_vars

InitCal ==
    /\ plan = PlanIdle
    /\ wfv = WaitIdle
    /\ ident = IdentIdle
    /\ ldr = LoadIdle
    /\ prs = ParseIdle
    /\ ovl = OverlapIdle
    /\ pol = NotRunning
    /\ \E t \in {0, 256 - 1} :
         cal = [pc |-> "read1", tick |-> t, tickValue |-> 0, tickLoopCount |-> 0,
                iters |-> 0, ticks |-> 0, ret |-> 0]
    /\ prm = NotRunning
    /\ blk = NotRunning
    /\ MainIdle

NextCal ==
    \/ CalTick
    \/ CalRead
    \/ CalWait
    \/ CalFor

\* the program keeps running and the timer interrupt keeps coming
SpecCal ==
    /\ InitCal
    /\ [][NextCal]_vars
    /\ WF_vars(CalRead \/ CalWait \/ CalFor)
    /\ WF_vars(CalTick)

InitPrompt ==
    /\ plan = PlanIdle
    /\ wfv = WaitIdle
    /\ ident = IdentIdle
    /\ ldr = LoadIdle
    /\ prs = ParseIdle
    /\ ovl = OverlapIdle
    /\ pol = NotRunning
    /\ cal = NotRunning
    /\ prm = [pc |-> "getch", keys |-> <<>>, ret |-> FALSE, next |-> ""]
    /\ blk = NotRunning
    /\ MainIdle

SpecPrompt == InitPrompt /\ [][PromptKey]_vars

(***************************************************************************)
(* SpecSegs: the walk of FlashRom and VerifyRom over the block segments,   *)
(* on every segment ParseCmdLine lets through.  The device's content is    *)
(* left open: memcmp, EraseBlock and ProgramBlock may come out either way. *)
(***************************************************************************)
\* FlashRom: call -> DisableInterrupts, blockIndex = 0; then one pass of the
\* for loop per step; leaving the loop runs EnableInterrupts and returns
SegsFlashRom ==
    /\ blk.pc \in {"call", "loop"}
    /\ blk.fn = "FlashRom"
    /\ \/ /\ blk.pc = "call"
          /\ blk' = [blk EXCEPT !.intEnabled = DisableInterrupts,
                                !.pc = "loop"]
       \/ /\ blk.pc = "loop"
          /\ blk.blockIndex >= blk.numRomBlocks
          /\ blk' = [blk EXCEPT !.intEnabled = TRUE,
                                !.ret = FlashRomResult("", blk.numBlocksFlashed),
                                !.pc = "done"]
       \/ /\ blk.pc = "loop"
          /\ blk.blockIndex < blk.numRomBlocks
          /\ \E out \in {"same", "erase timeout", "program timeout", "flashed"} :
                LET here == [blk EXCEPT !.at = blk.destSeg, !.atIndex = blk.blockIndex,
                                        !.op = IF out = "same" THEN "read" ELSE "flash"]
                IN CASE out = "same" ->
                          blk' = [here EXCEPT !.blockIndex = @ + 1,
                                              !.destSeg = NextSeg(@)]
                     [] out = "flashed" ->
                          blk' = [here EXCEPT !.numBlocksFlashed = @ + 1,
                                              !.blockIndex = @ + 1,
                                              !.destSeg = NextSeg(@)]
                     [] OTHER ->
                          blk' = [here EXCEPT !.intEnabled = TRUE,
                                              !.ret = FlashRomResult(out, blk.numBlocksFlashed),
                                              !.pc = "done"]
    /\ UNCHANGED <<plan, wfv, ident, ldr, prs, ovl, pol, cal, prm, mainVars>>

\* VerifyRom: one pass of the for loop per step; ret 1 is TRUE, 0 is FALSE
SegsVerifyRom ==
    /\ blk.pc \in {"call", "loop"}
    /\ blk.fn = "VerifyRom"
    /\ \/ /\ blk.pc = "call"
          /\ blk' = [blk EXCEPT !.pc = "loop"]
       \/ /\ blk.pc = "loop"
          /\ blk.blockIndex >= blk.numRomBlocks
          /\ blk' = [blk EXCEPT !.ret = 1, !.pc = "done"]
       \/ /\ blk.pc = "loop"
          /\ blk.blockIndex < blk.numRomBlocks
          /\ \E same \in BOOLEAN :
                LET here == [blk EXCEPT !.at = blk.destSeg, !.atIndex = blk.blockIndex,
                                        !.op = "read"]
                IN IF same
                   THEN blk' = [here EXCEPT !.blockIndex = @ + 1,
                                            !.destSeg = NextSeg(@)]
                   ELSE blk' = [here EXCEPT !.ret = 0, !.pc = "done"]
    /\ UNCHANGED <<plan, wfv, ident, ldr, prs, ovl, pol, cal, prm, mainVars>>

\* dest is the segment as passed in, destSeg the parameter the loop advances
InitSegs ==
    /\ plan = PlanIdle
    /\ wfv = WaitIdle
    /\ ident = IdentIdle
    /\ ldr = LoadIdle
    /\ prs = ParseIdle
    /\ ovl = OverlapIdle
    /\ pol = NotRunning
    /\ cal = NotRunning
    /\ prm = NotRunning
    /\ \E d \in AcceptedDestSegs, l \in OverlapFlashLens, f \in {"FlashRom", "VerifyRom"} :
          blk = [pc |-> "call", fn |-> f, dest |-> d, destSeg |-> d,
                 numRomBlocks |-> l \div FLASH_BLOCK_SIZE, blockIndex |-> 0,
                 numBlocksFlashed |-> 0, intEnabled |-> TRUE,
                 at |-> d, atIndex |-> 0, op |-> "none", ret |-> 0]
    /\ MainIdle

NextSegs == SegsFlashRom \/ SegsVerifyRom

SpecSegs == InitSegs /\ [][NextSegs]_vars

InitLoad ==
    /\ plan = PlanIdle
    /\ wfv = WaitIdle
    /\ ident = IdentIdle
    /\ ldr \in [pc : {"call"}, len : LoadLens, sizeOverrideK : LoadSizeOverrides,
                 ok : {FALSE}, numRomBlocks : {0}, romSize : {0}, origRomSize : {0}]
    /\ prs = ParseIdle
    /\ ovl = OverlapIdle
    /\ MoreIdle
    /\ MainIdle

NextLoad == LoadCall

SpecLoad == InitLoad /\ [][NextLoad]_vars

(***************************************************************************)
(* Properties.                                                             *)
(***************************************************************************)
\* offsets, from the destination address, of the bytes the model carries
SamplePositions == { b * FLASH_BLOCK_SIZE + Off(j) : b \in Blocks, j \in Samples }
DestByte(p) == DevRead(dev, MK_FP(options.destSeg, 0) + p)
RoundUp4K(n) == ((n + FLASH_BLOCK_SIZE - 1) \div FLASH_BLOCK_SIZE) * FLASH_BLOCK_SIZE
Last(t) == t[Len(t)]
IsWrite(e, addr, val) == e.op = "W" /\ e.addr = addr /\ e.val = val

\* C1: round trip.  When FlashRom has returned a positive count and VerifyRom
\* TRUE, every destination byte below origRomSize equals the file's byte at
\* that offset, and the bytes from origRomSize up to the next 4 KiB multiple
\* are 0x00.
C1_RoundTrip ==
    (pc = "halt" /\ result.flashed > 0 /\ result.verified = "pass") =>
        /\ \A p \in SamplePositions :
              p < romData.origRomSize => DestByte(p) = fileData[p]
        /\ \A p \in SamplePositions :
              (romData.origRomSize <= p /\ p < RoundUp4K(romData.origRomSize))
                  => DestByte(p) = 0

\* a verified run whose file ends inside a block and holds a non-zero byte
C1_Witness ==
    /\ pc = "halt" /\ result.flashed > 0 /\ result.verified = "pass"
    /\ romData.origRomSize % FLASH_BLOCK_SIZE # 0
    /\ \E p \in SamplePositions :
          romData.origRomSize <= p /\ p < RoundUp4K(romData.origRomSize)
    /\ \E p \in DOMAIN fileData : fileData[p] # 0

\* C2: idempotence.  When every image block equals its device block as
\* FlashRom starts, FlashRom issues no write, the device keeps its contents
\* and sees no command cycle, and FlashRom returns 0.
C2_Idempotent ==
    result.matchAtStart =>
        /\ result.writes = 0
        /\ \A k \in 1 .. Len(trace) : trace[k].op = "W" => trace[k].line <= 484
        /\ \A k \in 0 .. (romData.numRomBlocks - 1) : ImageBlockOnDevice(k)
        /\ dev.cmd = 0 /\ dev.busy.op = "none"
        /\ pc \in {"fl_loop", "fl_sti", "fl_ret", "exit"}
        /\ result.returned => (result.flashed = 0 /\ result.exitCode = 0)

\* FlashRom has returned 0 for an image of two blocks already on the device
C2_Witness ==
    /\ result.matchAtStart /\ result.returned /\ result.flashed = 0
    /\ romData.numRomBlocks = 2

\* C3: for every destination segment that is a multiple of 0x100 in
\* 0xA000..0xF800 and every length of 1..64 blocks, the segment returned by
\* CalculateSequenceSeg is a multiple of 0x800 (32 KiB aligned).
C3_SeqSegAligned ==
    plan.pc = "done" => plan.seqSeg % (sequenceWindowSize \div 16) = 0

\* a plan whose window does not start at the destination segment
C3_Witness ==
    /\ plan.pc = "done"
    /\ plan.seqSeg # plan.destSeg
    /\ plan.destSeg % (sequenceWindowSize \div 16) # 0

\* C4 as stated: the segment returned by CalculateSequenceSeg is never above
\* the destination segment, rounded up or not.
C4_SeqSegNotAboveDest ==
    plan.pc = "done" => plan.seqSeg <= plan.destSeg

\* C4 amended: the returned segment is at or below the destination segment,
\* and less than 32 KiB below it, when the planner does not round up; when it
\* rounds up, the segment is above the destination segment by less than
\* 32 KiB and the whole window lies inside the destination range.
C4_SeqSegVersusDest ==
    plan.pc = "done" =>
        IF RoundsUp(plan.destSeg, plan.flashLen)
        THEN /\ plan.destSeg < plan.seqSeg
             /\ plan.seqSeg < plan.destSeg + (sequenceWindowSize \div 16)
             /\ plan.seqSeg * 16 + sequenceWindowSize <= plan.destSeg * 16 + plan.flashLen
        ELSE /\ plan.seqSeg <= plan.destSeg
             /\ plan.destSeg < plan.seqSeg + (sequenceWindowSize \div 16)

\* a plan that was rounded up
C4_Witness ==
    /\ plan.pc = "done"
    /\ RoundsUp(plan.destSeg, plan.flashLen)
    /\ plan.seqSeg > plan.destSeg

\* C5 as stated: destination segment 0xC800 with 32 KiB to program gives
\* command window segment 0xC000.
C5_HappyPathC000 ==
    (plan.pc = "done" /\ plan.destSeg = 51200 /\ plan.flashLen = 32768)
        => plan.seqSeg = 49152

\* C5 amended: destination segment 0xC800 with 32 KiB to program gives
\* command window segment 0xC800 (0xC8000 is itself a 32 KiB boundary).
C5_HappyPathC800 ==
    (plan.pc = "done" /\ plan.destSeg = 51200 /\ plan.flashLen = 32768)
        => plan.seqSeg = 51200

\* the plan for 0xC800 and 32 KiB has been computed
C5_Witness ==
    plan.pc = "done" /\ plan.destSeg = 51200 /\ plan.flashLen = 32768

\* C6: bounded timing.  A call WaitForValue(addr, value, n) never performs
\* more than n reads of addr, whatever the device returns.
C6_ReadsWithinIterations ==
    wfv.pc # "off" => wfv.reads <= wfv.n

\* C7: critical section balance.  EnableInterrupts calls never outnumber
\* DisableInterrupts calls and at most one disable is outstanding; outside
\* DetectDeviceType and FlashRom, in particular once either has returned by
\* any path, every disable has had its enable and interrupts are enabled.
C7_CriticalSectionBalance ==
    /\ ints.en <= ints.dis
    /\ ints.dis <= ints.en + 1
    /\ pc \in {"load", "calibrate", "plan", "det_cli", "det_ret", "prompt", "fl_cli",
               "fl_ret", "verify", "halt", "exit"}
          => (intEnabled /\ ints.dis = ints.en)
    /\ result.returned => (intEnabled /\ ints.dis = 2 /\ ints.en = 2)

\* FlashRom has returned after a program timeout in its second block
C7_Witness ==
    /\ result.returned /\ result.flashed = -1
    /\ loc.errorString = "Timeout programming block."
    /\ loc.numBlocksFlashed = 1
    /\ intEnabled

\* C8: while a software-ID, sector-erase or byte-program sequence is in
\* progress (the host is between the first unlock write and the end of the
\* read or poll phase, or the device is inside a command sequence or in
\* software-ID mode), interrupts are disabled; and no write reaches the
\* device with interrupts enabled.
C8_SequencesWithInterruptsOff ==
    /\ pc \in {"det_unlock", "det_read", "det_exit", "er_unlock", "er_cmd", "er_poll",
               "pg_unlock", "pg_data", "pg_poll"} => ~intEnabled
    /\ (dev.cmd # 0 \/ dev.mode = "id") => ~intEnabled
    /\ \A k \in 1 .. Len(trace) : trace[k].op = "W" => ~trace[k].ie

\* a byte program is being polled, the device busy with it
C8_Witness ==
    /\ pc = "pg_poll" /\ dev.busy.op = "prog" /\ ~intEnabled
    /\ loc.blockIndex = 1

\* C9: unlock prefix of a byte program.  Whenever the latest device access is
\* the data write of ProgramBlock, it is the write dest:i <- src:i and the
\* three accesses right before it are the writes S:5555 <- 0xAA,
\* S:2AAA <- 0x55, S:5555 <- 0xA0 in that order; the access before those is
\* a polling read, so the prefix is exactly these three writes.
C9_ProgramUnlockPrefix ==
    (Len(trace) >= 1 /\ Last(trace).line = 543) =>
        LET n == Len(trace)
        IN /\ n >= 5
           /\ IsWrite(trace[n], MK_FP(loc.curSeg, Off(loc.i)),
                      romData.romBlocks[loc.blockIndex + 1][loc.i])
           /\ IsWrite(trace[n - 3], MK_FP(sequenceSeg, ADDR_5555), 170)
           /\ IsWrite(trace[n - 2], MK_FP(sequenceSeg, ADDR_2AAA), 85)
           /\ IsWrite(trace[n - 1], MK_FP(sequenceSeg, ADDR_5555), 160)
           /\ trace[n - 4].op = "R"
           /\ trace[n - 4].line \in {523, 547}

\* the data write of the last byte of a block has just been issued
C9_Witness ==
    /\ Len(trace) >= 1 /\ Last(trace).line = 543
    /\ loc.i = BlockLen - 1
    /\ Last(trace).val # 0

\* C10: sector erase sequence.  Whenever the latest device access is the
\* erase command write of EraseBlock, it is dest:0 <- 0x30 and the five
\* accesses right before it are the writes S:5555 <- 0xAA, S:2AAA <- 0x55,
\* S:5555 <- 0x80, S:5555 <- 0xAA, S:2AAA <- 0x55 in that order, the access
\* before those being FlashRom's comparison read; and the polling read of
\* dest:0 comes right after the 0x30 write to the same address.
C10_EraseSequence ==
    /\ (Len(trace) >= 1 /\ Last(trace).line = 518) =>
          LET n == Len(trace)
          IN /\ n >= 7
             /\ IsWrite(trace[n], MK_FP(loc.curSeg, 0), 48)
             /\ IsWrite(trace[n - 5], MK_FP(sequenceSeg, ADDR_5555), 170)
             /\ IsWrite(trace[n - 4], MK_FP(sequenceSeg, ADDR_2AAA), 85)
             /\ IsWrite(trace[n - 3], MK_FP(sequenceSeg, ADDR_5555), 128)
             /\ IsWrite(trace[n - 2], MK_FP(sequenceSeg, ADDR_5555), 170)
             /\ IsWrite(trace[n - 1], MK_FP(sequenceSeg, ADDR_2AAA), 85)
             /\ trace[n - 6].op = "R" /\ trace[n - 6].line = 573
    /\ (Len(trace) >= 1 /\ Last(trace).line = 523) =>
          LET n == Len(trace)
          IN /\ n >= 2
             /\ Last(trace).op = "R"
             /\ IsWrite(trace[n - 1], Last(trace).addr, 48)
             /\ trace[n - 1].line = 518
             /\ Last(trace).addr = MK_FP(loc.curSeg, 0)

\* the erase of the second block has been polled and found complete
C10_Witness ==
    /\ Len(trace) >= 1 /\ Last(trace).line = 523 /\ Last(trace).val = 255
    /\ loc.blockIndex = 1
    /\ pc = "pg_unlock"

\* C11: device-ID dispatch.  For every pair of ID bytes DetectDeviceType
\* returns a name exactly when the vendor byte is 0xBF and the device byte is
\* 0xB4, 0xB5, 0xB6 or 0xB7, and the name is then SST39SF512, SST39SF010,
\* SST39SF020, SST39SF040 in that order; every other pair gets no name.
C11_IdDispatch ==
    ident.pc = "done" =>
        LET v == ident.vendorId
            d == ident.deviceId
        IN /\ (ident.name # "NULL") <=> (v = 191 /\ d \in {180, 181, 182, 183})
           /\ (v = 191 /\ d = 180) => ident.name = "SST39SF512"
           /\ (v = 191 /\ d = 181) => ident.name = "SST39SF010"
           /\ (v = 191 /\ d = 182) => ident.name = "SST39SF020"
           /\ (v = 191 /\ d = 183) => ident.name = "SST39SF040"
           /\ ident.name \in {"NULL", "SST39SF512", "SST39SF010", "SST39SF020", "SST39SF040"}

C11_Witness ==
    /\ ident.pc = "done"
    /\ ident.vendorId = 191
    /\ ident.deviceId = 183
    /\ ident.name = "SST39SF040"

\* control positions of main() before DetectDeviceType has returned
BeforeDetectReturn ==
    {"parse", "load", "calibrate", "plan", "det_cli", "det_unlock", "det_read", "det_exit",
     "det_sti", "det_ret"}
\* source lines of the software-ID entry and exit writes
IdWriteLines == {472, 473, 474, 484}
\* the device in the socket answers with an ID of the table
InTable(id) == id[1] = 191 /\ id[2] \in {180, 181, 182, 183}

\* C12: unrecognised device.  When the ID bytes of the device are not in the
\* table, the run never reaches the prompt, FlashRom or VerifyRom: it ends
\* with exit code 1, no key was asked for, no erase or program write was
\* issued, and every device write is a software-ID entry or exit write.
C12_UnrecognizedAborts ==
    ~InTable(dev.id) =>
        /\ pc \in BeforeDetectReturn \cup {"exit"}
        /\ pc = "exit" => result.exitCode = 1
        /\ result.deviceName \in {"", "NULL"}
        /\ result.deviceName = "NULL" => pc = "exit"
        /\ result.answer = ""
        /\ result.writes = 0
        /\ ~result.returned
        /\ result.verified = "none"
        /\ \A i \in 1 .. Len(trace) : trace[i].op = "W" => trace[i].line \in IdWriteLines

C12_Witness ==
    /\ ~InTable(dev.id)
    /\ pc = "exit"
    /\ result.deviceName = "NULL"
    /\ Len(trace) = TraceWin
    /\ Last(trace).op = "W"
    /\ Last(trace).line = 484

\* control positions inside FlashRom and after it
FromFlashRom ==
    {"fl_cli", "fl_loop", "er_unlock", "er_cmd", "er_poll", "pg_unlock", "pg_data",
     "pg_poll", "fl_sti", "fl_ret", "verify", "halt"}
\* FlashRom has been entered: its first statement is the second
\* DisableInterrupts of the run
FlashRomCalled == ints.dis > 1 \/ pc \in (FromFlashRom \ {"fl_cli"})

\* C13: confirmation gate.  An erase or program write, and any call of
\* FlashRom or VerifyRom, happens only after the key 'y' or 'Y' was pressed at
\* the prompt; after 'n' or 'N' the run is over with exit code 1, no such
\* write was issued and neither function was called.
C13_ConfirmationGate ==
    /\ ( \/ result.writes > 0
         \/ \E i \in 1 .. Len(trace) : trace[i].op = "W" /\ trace[i].line \notin IdWriteLines
         \/ pc \in FromFlashRom
         \/ FlashRomCalled
         \/ result.returned
         \/ result.verified # "none" )
       => result.key \in {"y", "Y"}
    /\ result.key \in {"n", "N"} =>
          /\ pc = "exit"
          /\ result.exitCode = 1
          /\ result.writes = 0
          /\ \A i \in 1 .. Len(trace) : trace[i].op = "W" => trace[i].line \in IdWriteLines
          /\ ~FlashRomCalled
          /\ ~result.returned
          /\ result.verified = "none"
    /\ result.key \in {"", "y", "Y", "n", "N"}

C13_Witness ==
    /\ result.key = "N"
    /\ pc = "exit"
    /\ result.exitCode = 1
    /\ ~ImageBlockOnDevice(0)

\* device writes FlashRom issues for one block: six for the erase, and four
\* for every byte programmed
WritesPerBlock == 6 + 4 * BlockLen

\* C14: FlashRom's count.  A block is never programmed before its erase
\* command, never erased twice and no byte of it is programmed twice; when
\* FlashRom returns without a timeout, its value is the number of image
\* blocks that differed from the device when compared, each of those was
\* erased once and had every byte programmed once, and a block that compared
\* equal received no write.
C14_FlashedCount ==
    /\ \A b \in 0 .. (MaxBlocks - 1) :
          /\ result.erases[b] <= 1
          /\ result.progs[b] <= BlockLen
          /\ result.progs[b] > 0 => result.erases[b] = 1
    /\ (result.returned /\ result.flashed >= 0) =>
          /\ result.flashed = Cardinality(result.diff)
          /\ result.flashed \in 0 .. romData.numRomBlocks
          /\ result.diff \subseteq 0 .. (romData.numRomBlocks - 1)
          /\ \A b \in 0 .. (MaxBlocks - 1) :
                IF b \in result.diff
                THEN result.erases[b] = 1 /\ result.progs[b] = BlockLen
                ELSE result.erases[b] = 0 /\ result.progs[b] = 0
          /\ result.writes = result.flashed * WritesPerBlock

C14_Witness ==
    /\ result.returned
    /\ result.flashed = 1
    /\ romData.numRomBlocks = 2
    /\ result.diff = {1}
    /\ result.erases[1] = 1
    /\ result.erases[0] = 0

\* C15: timeout.  Once an erase poll or a program poll has timed out, the
\* failed poll read stays the last device access: FlashRom only re-enables
\* interrupts and returns -1, whatever the number of blocks already written.
\* The block at fault has its erase command and the bytes programmed up to
\* the one that failed, and no later block has any write.
C15_TimeoutStops ==
    loc.errorString # "" =>
        LET erasing == loc.errorString = "Timeout erasing block."
        IN /\ pc \in {"fl_sti", "fl_ret", "halt"}
           /\ Last(trace).op = "R"
           /\ Last(trace).line = (IF erasing THEN 523 ELSE 547)
           /\ result.returned => result.flashed = -1
           /\ pc = "halt" => result.returned
           /\ result.verified = "none"
           /\ result.erases[loc.blockIndex] = 1
           /\ result.progs[loc.blockIndex] = (IF erasing THEN 0 ELSE loc.i + 1)
           /\ \A b \in (loc.blockIndex + 1) .. (MaxBlocks - 1) :
                 result.erases[b] = 0 /\ result.progs[b] = 0
           /\ result.writes = loc.numBlocksFlashed * WritesPerBlock + 6
                                 + (IF erasing THEN 0 ELSE 4 * (loc.i + 1))

C15_Witness ==
    /\ loc.errorString = "Timeout programming block."
    /\ loc.numBlocksFlashed = 1
    /\ loc.i = 0
    /\ result.returned
    /\ result.flashed = -1
    /\ pc = "halt"

\* C16: halt forever.  Once FlashRom has returned a value other than 0, the
\* run is in VerifyRom or in the endless loop and main has returned nothing;
\* in the loop, after the message for a timeout, a passed or a failed
\* verification, no step changes anything: no device access, no return.
C16_HaltForever ==
    /\ (result.returned /\ result.flashed # 0) =>
          /\ pc \in {"verify", "halt"}
          /\ result.exitCode = -1
    /\ pc = "halt" =>
          /\ result.returned
          /\ result.flashed # 0
          /\ result.flashed = -1 <=> result.verified = "none"
          /\ result.flashed > 0 <=> result.verified \in {"pass", "fail"}
          /\ ~ENABLED <<Next>>_vars

C16_Witness ==
    /\ pc = "halt"
    /\ result.flashed > 0
    /\ result.verified = "fail"
    /\ result.exitCode = -1

\* C17: exit codes.  main has returned exactly in the states at "exit"; its
\* value is 0 when FlashRom returned 0 and 1 in every other case, which are
\* the runs ended by a command line error, a rejected image, a device that
\* is not recognised, or the answer 'n'.
C17_ExitCodes ==
    /\ pc # "exit" => result.exitCode = 0 - 1
    /\ pc = "exit" =>
          LET argError == ~ParseCmdLine(argv).ok
              rejected == ~argError
                          /\ ~LoadRomDataFromFile(fileLen, fileData, options.sizeOverrideK).ok
              unknown  == ~argError /\ ~rejected /\ ~InTable(dev.id)
              aborted  == result.key \in {"n", "N"}
              upToDate == result.returned /\ result.flashed = 0
          IN /\ result.exitCode \in {0, 1}
             /\ result.exitCode = 0 <=> upToDate
             /\ argError \/ rejected \/ unknown \/ aborted \/ upToDate
             /\ argError => result.exitCode = 1 /\ result.deviceName = ""
             /\ rejected => result.exitCode = 1 /\ result.deviceName = ""
             /\ unknown => result.exitCode = 1 /\ result.deviceName = "NULL"
             /\ aborted => result.exitCode = 1 /\ ~result.returned

C17_Witness ==
    /\ pc = "exit"
    /\ result.exitCode = 0
    /\ result.returned
    /\ result.flashed = 0
    /\ romData.numRomBlocks = 2

\* C18: verification is a separate pass.  VerifyRom has run exactly when
\* FlashRom returned a positive count; its reads come after every write of
\* FlashRom and with interrupts enabled; it writes nothing to the device; and
\* its verdict is "pass" exactly when every image block equals the device
\* block.
C18_VerifySeparatePass ==
    /\ result.verified # "none" => (result.returned /\ result.flashed > 0 /\ pc = "halt")
    /\ (pc = "halt" /\ result.flashed > 0) => result.verified # "none"
    /\ pc = "verify" => (result.returned /\ result.flashed > 0 /\ intEnabled)
    /\ \A i \in 1 .. Len(trace) :
          trace[i].line = 614 =>
              /\ trace[i].op = "R"
              /\ trace[i].ie
              /\ \A j \in i .. Len(trace) : trace[j].line = 614
    /\ result.verified # "none" =>
          /\ Last(trace).line = 614
          /\ result.writes = result.flashed * WritesPerBlock
          /\ dev.busy = NoOp
          /\ result.verified = "pass" <=>
                \A k \in 0 .. (romData.numRomBlocks - 1) : ImageBlockOnDevice(k)

C18_Witness ==
    /\ result.verified = "fail"
    /\ romData.numRomBlocks = 2
    /\ ImageBlockOnDevice(0)
    /\ ~ImageBlockOnDevice(1)
    /\ Len(trace) = TraceWin
    /\ trace[TraceWin - 1].line = 614
    /\ trace[TraceWin - 2].op = "R"
    /\ trace[TraceWin - 2].line = 547

\* C19: length check.  With no -size option, LoadRomDataFromFile returns
\* FALSE for every file whose length is 0 or not a multiple of 2048, and
\* TRUE only for a file whose length is a non-zero multiple of 2048.
C19_RejectsNonMultipleOf2K ==
    (ldr.pc = "done" /\ ldr.sizeOverrideK = 0) =>
        /\ (ldr.len = 0 \/ ldr.len % ROM_BLOCK_SIZE_ # 0) => ~ldr.ok
        /\ ldr.ok => (ldr.len # 0 /\ ldr.len % ROM_BLOCK_SIZE_ = 0)

\* C20: size limit.  With no -size option, LoadRomDataFromFile returns FALSE
\* for every file longer than 262144 bytes.
C20_RejectsOver256K ==
    (ldr.pc = "done" /\ ldr.sizeOverrideK = 0 /\ ldr.len > MAX_ROM_SIZE_K * 1024) => ~ldr.ok

\* C21: array bound.  For every file length and every -size value the
\* loader ends with numRomBlocks <= 64.  romBlocks[numRomBlocks] is written
\* just before each increment of numRomBlocks, in the reading loop and in
\* the padding loop alike, so the indices written are 0 .. numRomBlocks - 1
\* and none is past the 64-entry array.
C21_BlockCountBound ==
    ldr.pc = "done" =>
        /\ ldr.numRomBlocks <= MAX_ROM_BLOCK_COUNT
        /\ ldr.romSize <= MAX_ROM_SIZE_K * 1024

C21_Witness ==
    /\ ldr.pc = "done"
    /\ ldr.sizeOverrideK = MAX_ROM_SIZE_K
    /\ ldr.len = 2048
    /\ ldr.origRomSize = 2048
    /\ ldr.numRomBlocks = MAX_ROM_BLOCK_COUNT

\* C22: programmed length.  With no -size option, every accepted file has
\* romSize equal to its length rounded up to the next multiple of 4096, and a
\* file whose length is a multiple of 4096 has exactly length / 4096 blocks.
C22_RomSizeIsLengthRoundedUp ==
    (ldr.pc = "done" /\ ldr.sizeOverrideK = 0 /\ ldr.ok) =>
        /\ ldr.romSize = RoundUp4K(ldr.len)
        /\ ldr.len % FLASH_BLOCK_SIZE = 0 => ldr.numRomBlocks = ldr.len \div FLASH_BLOCK_SIZE

\* C23 as stated: with a -size value of K KiB the loaded image has
\* numRomBlocks * 4096 equal to K * 1024, whatever the file length.
C23_RomSizeIsLimit ==
    (ldr.pc = "done" /\ ldr.sizeOverrideK > 0) => ldr.romSize = ldr.sizeOverrideK * 1024

\* C23 amended: with a -size value of K KiB the loaded image has
\* numRomBlocks * 4096 equal to K * 1024 rounded up to the next multiple of
\* 4096, whatever the file length; that is K * 1024 when K is a multiple
\* of 4.
C23_RomSizeIsLimitRoundedUp ==
    (ldr.pc = "done" /\ ldr.sizeOverrideK > 0) =>
        /\ ldr.romSize = RoundUp4K(ldr.sizeOverrideK * 1024)
        /\ ldr.numRomBlocks * FLASH_BLOCK_SIZE = ldr.romSize
        /\ ldr.sizeOverrideK % FLASH_BLOCK_SIZE_K = 0 => ldr.romSize = ldr.sizeOverrideK * 1024

C23_Witness ==
    /\ ldr.pc = "done"
    /\ ldr.sizeOverrideK = 32
    /\ ldr.len = 10 * 1024
    /\ ldr.ok
    /\ ldr.numRomBlocks = 8
    /\ ldr.origRomSize = 10 * 1024

\* the image has been loaded and accepted
Loaded == pc \notin {"parse", "load"} /\ romData.numRomBlocks > 0

\* C24: image content.  For every accepted load, origRomSize is the smaller
\* of the file length and the limit, the image bytes below origRomSize are
\* the file's bytes at the same offsets and every image byte from there to
\* numRomBlocks * 4096 is 0x00; a 6 KiB file without -size gives 2 blocks,
\* origRomSize 6144 and romSize 8192.
C24_ImageContent ==
    Loaded =>
        LET limit == IF options.sizeOverrideK > 0 THEN options.sizeOverrideK * 1024
                     ELSE MAX_ROM_SIZE_K * 1024
        IN /\ romData.origRomSize = Min(fileLen, limit)
           /\ romData.romSize = romData.numRomBlocks * FLASH_BLOCK_SIZE
           /\ romData.origRomSize <= romData.romSize
           /\ \A b \in 0 .. (romData.numRomBlocks - 1), j \in Samples :
                 LET p == b * FLASH_BLOCK_SIZE + Off(j)
                 IN romData.romBlocks[b + 1][j] =
                        (IF p < romData.origRomSize THEN fileData[p] ELSE 0)
           /\ (fileLen = 6144 /\ options.sizeOverrideK = 0) =>
                 /\ romData.numRomBlocks = 2
                 /\ romData.origRomSize = 6144
                 /\ romData.romSize = 8192

C24_Witness ==
    /\ Loaded
    /\ fileLen = 6144
    /\ options.sizeOverrideK = 0
    /\ romData.numRomBlocks = 2
    /\ fileData[FLASH_BLOCK_SIZE] # 0
    /\ romData.romBlocks[2][0] = fileData[FLASH_BLOCK_SIZE]
    /\ romData.romBlocks[2][BlockLen - 1] = 0

\* C25: ParseCmdLine accepts a destination segment only if it is a multiple
\* of 0x100 in 0xA000..0xF800; every segment argument above 0xF800 is
\* rejected.
C25_SegmentRange ==
    prs.pc = "done" =>
        /\ prs.ok => /\ MIN_DEST_SEG <= prs.destSeg
                     /\ prs.destSeg <= MAX_DEST_SEG
                     /\ prs.destSeg % blockSizeInSeg = 0
        /\ prs.hex > MAX_DEST_SEG => ~prs.ok

\* C26: for every destination segment D and length L the planner returns
\* S = seqAddr >> 4, where seqAddr is D << 4 rounded down to 32 KiB and
\* increased by 32 KiB exactly when it is below D << 4 and seqAddr + 64 KiB
\* <= (D << 4) + L; when it rounds up, the window [S << 4, (S << 4) + 32 KiB)
\* lies inside [D << 4, (D << 4) + L); D = 0xC800, L = 64 KiB gives 0xC800.
C26_SeqSegFormula ==
    plan.pc = "done" =>
        LET destAddr == plan.destSeg * 16
            floor    == destAddr - (destAddr % 32768)
            up       == floor < destAddr /\ floor + 65536 <= destAddr + plan.flashLen
            seqAddr  == IF up THEN floor + 32768 ELSE floor
        IN /\ plan.seqSeg = seqAddr \div 16
           /\ up => /\ destAddr <= plan.seqSeg * 16
                     /\ plan.seqSeg * 16 + 32768 <= destAddr + plan.flashLen
           /\ (plan.destSeg = 51200 /\ plan.flashLen = 65536) => plan.seqSeg = 51200

\* the destination range in segments: [D, D + L/16)
InDestRange(seg) ==
    ovl.destSeg <= seg /\ seg < ovl.destSeg + ovl.flashLen \div 16

\* C27: for every plan (S, D, L) of the planner, also when S > D,
\* HaveOverlappingBioses calls IsBiosAtSeg on no segment inside the
\* destination range D <= curr < D + L/16.
C27_NoProbeInDestRange ==
    \A c \in ovl.probes : ~InDestRange(c)

\* C28: HaveOverlappingBioses returns TRUE if and only if some segment
\* curr = S + k * 0x80 (0 <= k < 16) outside the destination range has
\* byte[0] = 0x55 or byte[1] = 0xFF; in particular the segment D + L/16 at
\* the end of the destination range is probed when it is in the window and
\* no earlier probe has returned.
C28_OverlapComplete ==
    ovl.pc = "done" =>
        LET end == ovl.destSeg + ovl.flashLen \div 16
        IN /\ ovl.ret <=> \E c \in OverlapWindow(ovl.sequenceSeg) :
                                ~InDestRange(c) /\ IsBiosAtSeg(c)
           /\ (~ovl.ret /\ end \in OverlapWindow(ovl.sequenceSeg)) => end \in ovl.probes

\* a read of physical address addr
IsRead(e, addr) == e.op = "R" /\ e.addr = addr

\* C29: software-ID sequence.  DetectDeviceType issues the writes
\* S:5555 <- 0xAA, S:2AAA <- 0x55, S:5555 <- 0x90 back to back, then only
\* reads of dest:0 and dest:1, the last read of each giving the vendor and
\* device values it uses, then the exit write S:5555 <- 0xF0; the exit
\* write precedes the classification on every path, so the device is in
\* software-ID mode only between the entry and the exit write, also when
\* it is not recognised.
C29_SoftwareIdSequence ==
    LET n  == Len(trace)
        s5 == MK_FP(sequenceSeg, ADDR_5555)
        s2 == MK_FP(sequenceSeg, ADDR_2AAA)
        d0 == MK_FP(options.destSeg, 0)
        d1 == MK_FP(options.destSeg, 1)
    IN /\ (pc = "det_read" /\ loc.step = 1) =>
              /\ n >= 3
              /\ IsWrite(trace[n - 2], s5, 170)
              /\ IsWrite(trace[n - 1], s2, 85)
              /\ IsWrite(trace[n], s5, 144)
       /\ pc \in {"det_sti", "det_ret"} =>
              /\ n >= 7
              /\ IsWrite(trace[n - 6], s5, 144)
              /\ \A k \in 2 .. 5 : IsRead(trace[n - k], d0)
              /\ IsRead(trace[n - 1], d1)
              /\ IsWrite(trace[n], s5, 240)
              /\ loc.vendorId = trace[n - 2].val
              /\ loc.deviceId = trace[n - 1].val
       /\ (pc = "prompt" \/ (pc = "exit" /\ result.deviceName = "NULL")) =>
              /\ n >= 1
              /\ IsWrite(trace[n], s5, 240)
              /\ result.deviceName = DeviceName(loc.vendorId, loc.deviceId)
       /\ result.deviceName # "" => pc \notin BeforeDetectReturn \ {"det_ret"}
       /\ dev.mode = "id" => pc \in {"det_read", "det_exit"}

\* an unrecognised device has answered and has been taken out of ID mode
C29_Witness ==
    /\ pc = "det_ret"
    /\ ~InTable(dev.id)
    /\ loc.vendorId = dev.id[1]
    /\ loc.deviceId = dev.id[2]
    /\ dev.mode = "read"
    /\ trace[Len(trace)].line = 484

\* control positions of FlashRom's loop over the blocks
InFlashLoop ==
    {"fl_loop", "er_unlock", "er_cmd", "er_poll", "pg_unlock", "pg_data", "pg_poll"}

\* C30: block order of FlashRom.  Block i is written at segment
\* D + i * 0x100.  The unlock of a block's first byte program is issued only
\* when the latest access is the erase poll of that block reading 0xFF at
\* dest:0; the unlock of every later byte only when the latest access is
\* the matching poll of the byte before it, so the bytes go out in
\* ascending offset; and while block i is in work every block below i is
\* finished or was skipped and no block above i has been touched.
C30_BlockOrder ==
    pc \in InFlashLoop =>
        LET i == loc.blockIndex
            n == Len(trace)
        IN /\ loc.curSeg = options.destSeg + i * blockSizeInSeg
           /\ (pc = "pg_unlock" /\ loc.step = 1) =>
                 /\ n >= 1
                 /\ result.erases[i] = 1
                 /\ IF loc.i = 0
                    THEN /\ IsRead(trace[n], MK_FP(loc.curSeg, 0))
                         /\ trace[n].line = 523
                         /\ trace[n].val = 255
                    ELSE /\ IsRead(trace[n], MK_FP(loc.curSeg, Off(loc.i - 1)))
                         /\ trace[n].line = 547
                         /\ trace[n].val = romData.romBlocks[i + 1][loc.i - 1]
           /\ pc \in {"pg_unlock", "pg_data"} => result.progs[i] = loc.i
           /\ pc = "pg_poll" =>
                 /\ result.progs[i] = loc.i + 1
                 /\ IsWrite(trace[n], MK_FP(loc.curSeg, Off(loc.i)),
                            romData.romBlocks[i + 1][loc.i])
           /\ pc \in {"fl_loop", "er_unlock", "er_cmd"} =>
                 (i < MaxBlocks => result.progs[i] = 0)
           /\ \A b \in 0 .. (MaxBlocks - 1) :
                 /\ b > i => result.erases[b] = 0 /\ result.progs[b] = 0
                 /\ b < i => IF b \in result.diff
                             THEN result.erases[b] = 1 /\ result.progs[b] = BlockLen
                             ELSE result.erases[b] = 0 /\ result.progs[b] = 0

\* the second byte of the second block is due, the first block is complete
C30_Witness ==
    /\ pc = "pg_unlock" /\ loc.step = 1
    /\ loc.blockIndex = 1
    /\ loc.i = 1
    /\ result.progs[0] = BlockLen
    /\ result.progs[1] = 1
    /\ result.erases = [b \in 0 .. (MaxBlocks - 1) |-> 1]

\* C31: timeout budgets.  ProgramBlock gives up on a byte after exactly one
\* WaitForValue call that failed; EraseBlock gives up after exactly 1163
\* failed calls in a row; every call gets the count FlashRom was given.
\* That count is set once, by ProcessRom before the device is detected,
\* and never changes afterwards.
C31_TimeoutBudgets ==
    /\ pol.pc \in {"er_loop", "pg_loop", "done"} =>
          /\ pol.counts \subseteq {pol.timeoutLoopCount}
          /\ pol.calls > 0 => pol.counts = {pol.timeoutLoopCount}
    /\ pol.pc = "er_loop" => pol.calls = 1163 - pol.timeoutOuterLoopCount
    /\ (pol.pc = "done" /\ pol.fn = "EraseBlock") =>
          IF pol.ret THEN pol.calls \in 1 .. 1163 ELSE pol.calls = 1163
    /\ pol.pc = "pg_loop" => pol.calls = pol.i
    /\ (pol.pc = "done" /\ pol.fn = "ProgramBlock") =>
          IF pol.ret THEN pol.calls = FLASH_BLOCK_SIZE /\ pol.i = FLASH_BLOCK_SIZE
          ELSE pol.calls = pol.i + 1 /\ pol.i < FLASH_BLOCK_SIZE
    /\ pc \in {"parse", "load", "calibrate"} => timeoutLoopCount = 0
    /\ pc \notin {"off", "parse", "load", "calibrate", "exit"} =>
          /\ timeoutLoopCount \in TimeoutCounts
          /\ timeoutLoopCount = 1000
    /\ (pc = "plan" /\ timeoutLoopCount # 0) =>
          /\ trace = <<>>
          /\ result.deviceName = ""

\* an erase has timed out
C31_Witness ==
    /\ pol.pc = "done"
    /\ pol.fn = "EraseBlock"
    /\ ~pol.ret
    /\ pol.calls = 1163
    /\ pol.counts = {1000}

\* the count is the number of poll iterations started, each started with
\* the tick at its second observed value, and never exceeds 0xFFFF; the
\* function gets past its first wait only after one advance of the tick
\* and returns only after two
CalCounts ==
    /\ cal.pc \in {"for", "wait2", "done"} =>
          /\ cal.tickLoopCount = cal.iters
          /\ cal.tickLoopCount <= 65535
          /\ cal.ticks >= 1
    /\ cal.pc = "done" =>
          /\ cal.ret = cal.iters
          /\ cal.ret <= 65535
          /\ cal.ticks = 2
    /\ cal.pc \in {"read1", "wait1"} => cal.iters = 0

\* C32: calibration.  With the tick byte advancing again and again,
\* CalculateTimeoutLoopCount terminates; it returns the number of 256-try
\* poll iterations started while the tick was at its second observed value,
\* at most 0xFFFF and never wrapped; it cannot return unless the tick has
\* advanced.
C32_Calibration == []CalCounts /\ <>(cal.pc = "done")

\* the loop ran into its limit before the tick advanced
C32_Witness ==
    /\ cal.pc = "done"
    /\ cal.ret = 65535
    /\ cal.iters = 65535

\* C33: at the prompt any first keystroke other than y or Y makes the
\* controller abort without programming; only y or Y lets programming
\* start.
C33_FirstKeyDecides ==
    prm.pc \in {"getch", "done"} =>
        /\ (Len(prm.keys) >= 1 /\ prm.keys[1] \notin {"y", "Y"}) =>
               prm.pc = "done" /\ ~prm.ret /\ prm.next = "exit"
        /\ (prm.pc = "done" /\ prm.next = "fl_cli") => prm.keys[Len(prm.keys)] \in {"y", "Y"}

\* C33 as the code has it: keys other than y, Y, n, N are ignored and the
\* prompt keeps waiting; the first key among y, Y, n, N ends it; on n or N
\* ProcessRom returns failure without programming, and only y or Y lets
\* programming start.
C33_FirstAnswerDecides ==
    prm.pc \in {"getch", "done"} =>
        LET n == Len(prm.keys)
        IN /\ prm.pc = "getch" => \A j \in 1 .. n : prm.keys[j] \notin {"y", "Y", "n", "N"}
           /\ prm.pc = "done" =>
                 /\ n >= 1
                 /\ \A j \in 1 .. (n - 1) : prm.keys[j] \notin {"y", "Y", "n", "N"}
                 /\ prm.keys[n] \in {"y", "Y", "n", "N"}
                 /\ prm.ret <=> prm.keys[n] \in {"y", "Y"}
                 /\ prm.next = (IF prm.keys[n] \in {"y", "Y"} THEN "fl_cli" ELSE "exit")

\* a stray key, then Y: programming starts
C33_Witness ==
    /\ prm.pc = "done"
    /\ prm.keys = <<"x", "Y">>
    /\ prm.ret
    /\ prm.next = "fl_cli"

\* C34: for every destination segment ParseCmdLine accepts, the planner's S
\* and every image length, HaveOverlappingBioses probes at most 16
\* segments, all of them in [S, S + 0x800), and then returns, also when no
\* segment holds a signature.
C34_ProbesBounded ==
    ovl.pc \in {"loop", "done"} =>
        /\ Cardinality(ovl.probes) <= 16
        /\ \A c \in ovl.probes : ovl.sequenceSeg <= c /\ c < ovl.sequenceSeg + 2048

\* C36: for every destination segment ParseCmdLine accepts and every image
\* length, the planner's 16-bit result S satisfies S << 4 = seqAddr (nothing
\* is lost in the narrowing), S >= 0xA000, and the unlock addresses
\* (S << 4) + 0x5555 and (S << 4) + 0x2AAA are below 1 MiB.
C36_SeqSegNotTruncated ==
    plan.pc = "done" =>
        LET destAddr == plan.destSeg * 16
            floor    == destAddr - (destAddr % 32768)
            seqAddr  == IF floor < destAddr /\ floor + 65536 <= destAddr + plan.flashLen
                        THEN floor + 32768 ELSE floor
        IN /\ plan.seqSeg * 16 = seqAddr
           /\ plan.seqSeg >= MIN_DEST_SEG
           /\ plan.seqSeg * 16 + ADDR_5555 < 1048576
           /\ plan.seqSeg * 16 + ADDR_2AAA < 1048576

\* C35: for every destination segment D ParseCmdLine accepts and every image
\* the loader accepts, block i of FlashRom and of VerifyRom is accessed at
\* segment D + i * 0x100 with no 16-bit wraparound, every access stays inside
\* [D << 4, (D << 4) + numRomBlocks * 4096), and that range ends at or below
\* 1 MiB.
C35_BlocksInsideRange ==
    blk.op # "none" =>
        /\ blk.at = blk.dest + blk.atIndex * blockSizeInSeg
        /\ blk.dest * 16 <= blk.at * 16
        /\ blk.at * 16 + FLASH_BLOCK_SIZE <= blk.dest * 16 + blk.numRomBlocks * FLASH_BLOCK_SIZE
        /\ blk.dest * 16 + blk.numRomBlocks * FLASH_BLOCK_SIZE <= 1048576
====
